---- MODULE Spec2Model ----
(***************************************************************************)
(* A model of the golang-main utility packages: the file package           *)
(* (FileMutex, FileSave, FileAppend, FileRemove, Log) and the sqlitedb /   *)
(* mysqldb connection wrappers.                                            *)
(***************************************************************************)
EXTENDS Integers, Sequences, FiniteSets, TLC

\* ------------------------------------------------------------------ bounds

\* Number of goroutines that call into the file package.
NumGoroutines == 2

\* Number of top-level calls each of the concurrent goroutines makes.
MaxCalls == 1

\* Number of calls the single call path makes.
MaxPathCalls == 3

Procs == 1..NumGoroutines

\* ------------------------------------------------------------- file package

VARIABLES
    LockValue,    \* FileMutex.LockValue
    SyncMutex,    \* FileMutex.SyncMutex: 0 = unlocked, g = locked (by goroutine g's Lock call)
    pc,           \* pc[g]: the statement goroutine g executes next
    stack,        \* stack[g]: the frames of the file-package functions g is inside
    tmp,          \* tmp[g]: the value g loaded for LockValue++ / LockValue--
    calls,        \* calls[g]: top-level calls g has started
    files,        \* files[p]: [exists, content] of the file at path p
    openHandles,  \* *os.File handles opened and not closed
    crashed,      \* the runtime ended the process (fatal error); every pc is then "fatal"
    faults,       \* whether the file system may fail an open or a write
    hist          \* hist[g]: for g's current top-level call, LockValue at entry and the
                  \* stack depths at which SyncMutex.Lock() / SyncMutex.Unlock() were run

fileVars == <<LockValue, SyncMutex, pc, stack, tmp, calls, files, openHandles, crashed, faults, hist>>

\* ---- row scanning (ScanRows of either package)

VARIABLES
    variant,      \* "sqlite" (SQLiteDBStruct) or "mysql" (MySQLdbStruct)
    columns,      \* the cursor's columns, in order: [Name, Type] (DatabaseTypeName)
    columnTypes,  \* ScanRows of mysqldb: the name -> type map GetRowsInfo returned
    scanpc,       \* where ScanRows is: "idle", "loop", "done", "panic"
    records,      \* the records ScanRows has appended
    coerced,      \* the values of the row scanned last, by column, after the type switch
    scanErr,      \* the error ScanRows returns ("nil" for none)
    failure       \* what the driver failed at: [kind |-> "none" | "next" | "scan", row]

scanVars == <<variant, columns, columnTypes, scanpc, records, coerced, scanErr, failure>>

\* ---- connections (sqlitedb, mysqldb)

VARIABLES
    conn,         \* the configuration record: a SQLiteDBStruct or a MySQLdbStruct (DB = 0: nil)
    env,          \* the process environment (the MYSQL_ variables)
    dbFiles,      \* the database files that exist
    openDBs,      \* the driver handles opened and not closed
    connects,     \* sql.Open calls made so far (handles are numbered by them)
    last          \* the most recent operation on conn and what it returned

dbVars == <<conn, env, dbFiles, openDBs, connects, last>>

\* ---- calls of the functions without state (name checks, Log's escaping, conv)

VARIABLES
    input,        \* the argument of the call
    output        \* [fn |-> the function called ("none" before the call), ...its results]

callVars == <<input, output>>

vars == <<fileVars, scanVars, dbVars, callVars>>

\* The path Log writes to, and one other path callers pass.
LogFile == "/tmp/golang.log"

OtherFile == "/tmp/f"

Paths == {LogFile, OtherFile}

\* Lines of a file: the log header, a log entry of call k of goroutine g, caller data.
HeaderLine == <<"hdr", 0, 0>>

EntryLine(g, k) == <<"entry", g, k>>

DataLine == <<"data", 0, 0>>

\* The data arguments callers pass: the empty string and a one-line string.
DataArgs == {<< >>, <<DataLine>>}

NoFile == [exists |-> FALSE, content |-> << >>]

Frame(fn, path, data) ==
    [fn |-> fn, path |-> path, data |-> data, hdr |-> FALSE, err |-> FALSE]

Top(g) == stack[g][Len(stack[g])]

SetTop(g, f) == [stack EXCEPT ![g] = [@ EXCEPT ![Len(@)] = f]]

\* The outcomes of an open or a write: success, and failure when faults are on.
IOOutcomes == IF faults THEN BOOLEAN ELSE {TRUE}

NoHist == [entry |-> 0, mlock |-> << >>, munlock |-> << >>]

FileInit ==
    /\ LockValue = 0
    /\ SyncMutex = 0
    /\ pc = [g \in Procs |-> "idle"]
    /\ stack = [g \in Procs |-> << >>]
    /\ tmp = [g \in Procs |-> 0]
    /\ calls = [g \in Procs |-> 0]
    /\ files = [p \in Paths |-> NoFile]
    /\ openHandles = 0
    /\ crashed = FALSE
    /\ hist = [g \in Procs |-> NoHist]

\* ---- FileMutexStruct.lock (internal, counting)

\* if fm.LockValue == 1
lockMustAcquire(v) == v = 1

\* fm.LockValue++ : the load
lock_load(g) ==
    /\ pc[g] = "lock_load"
    /\ tmp' = [tmp EXCEPT ![g] = LockValue]
    /\ pc' = [pc EXCEPT ![g] = "lock_store"]
    /\ UNCHANGED <<LockValue, SyncMutex, stack, calls, files, openHandles, crashed, faults, hist,
                   scanVars, dbVars, callVars>>

\* fm.LockValue++ : the store
lock_store(g) ==
    /\ pc[g] = "lock_store"
    /\ LockValue' = tmp[g] + 1
    /\ pc' = [pc EXCEPT ![g] = "lock_test"]
    /\ UNCHANGED <<SyncMutex, stack, tmp, calls, files, openHandles, crashed, faults, hist,
                   scanVars, dbVars, callVars>>

\* The first statement of the function body that follows lock().
BodyStart(fn) ==
    CASE fn = "FileSave" -> "FileSave_create"
      [] fn = "FileAppend" -> "FileAppend_open"
      [] fn = "FileRemove" -> "FileRemove_remove"
      [] fn = "Log" -> "Log_exists"

lock_test(g) ==
    /\ pc[g] = "lock_test"
    /\ pc' = [pc EXCEPT ![g] = IF lockMustAcquire(LockValue) THEN "lock_Lock"
                                 ELSE BodyStart(Top(g).fn)]
    /\ UNCHANGED <<LockValue, SyncMutex, stack, tmp, calls, files, openHandles, crashed, faults, hist,
                   scanVars, dbVars, callVars>>

\* fm.SyncMutex.Lock(): blocks while the mutex is locked
lock_Lock(g) ==
    /\ pc[g] = "lock_Lock"
    /\ SyncMutex = 0
    /\ SyncMutex' = g
    /\ hist' = [hist EXCEPT ![g].mlock = Append(@, Len(stack[g]))]
    /\ pc' = [pc EXCEPT ![g] = BodyStart(Top(g).fn)]
    /\ UNCHANGED <<LockValue, stack, tmp, calls, files, openHandles, crashed, faults,
                   scanVars, dbVars, callVars>>

\* ---- FileMutexStruct.unlock (internal, counting), run as the deferred call

\* Mutant: unlock() releases one level too early.
unlockMustRelease_OffByOne(v) == v = 1

\* if fm.LockValue == 0
unlockMustRelease(v) == v = 0

unlock_load(g) ==
    /\ pc[g] = "unlock_load"
    /\ tmp' = [tmp EXCEPT ![g] = LockValue]
    /\ pc' = [pc EXCEPT ![g] = "unlock_store"]
    /\ UNCHANGED <<LockValue, SyncMutex, stack, calls, files, openHandles, crashed, faults, hist,
                   scanVars, dbVars, callVars>>

unlock_store(g) ==
    /\ pc[g] = "unlock_store"
    /\ LockValue' = tmp[g] - 1
    /\ pc' = [pc EXCEPT ![g] = "unlock_test"]
    /\ UNCHANGED <<SyncMutex, stack, tmp, calls, files, openHandles, crashed, faults, hist,
                   scanVars, dbVars, callVars>>

unlock_test(g) ==
    /\ pc[g] = "unlock_test"
    /\ pc' = [pc EXCEPT ![g] = IF unlockMustRelease(LockValue) THEN "unlock_Unlock" ELSE "return"]
    /\ UNCHANGED <<LockValue, SyncMutex, stack, tmp, calls, files, openHandles, crashed, faults, hist,
                   scanVars, dbVars, callVars>>

\* fm.SyncMutex.Unlock(): "fatal error: sync: unlock of unlocked mutex" when not locked
unlock_Unlock(g) ==
    /\ pc[g] = "unlock_Unlock"
    /\ IF SyncMutex = 0
       THEN /\ crashed' = TRUE
            /\ pc' = [h \in Procs |-> "fatal"]
            /\ UNCHANGED <<SyncMutex, hist>>
       ELSE /\ SyncMutex' = 0
            /\ hist' = [hist EXCEPT ![g].munlock = Append(@, Len(stack[g]))]
            /\ pc' = [pc EXCEPT ![g] = "return"]
            /\ UNCHANGED crashed
    /\ UNCHANGED <<LockValue, stack, tmp, calls, files, openHandles, faults,
                   scanVars, dbVars, callVars>>

\* The function returns to its caller: Log (after FileAppend) or the goroutine.
return(g) ==
    /\ pc[g] = "return"
    /\ stack' = [stack EXCEPT ![g] =
                    IF Len(@) > 1
                    THEN Append(SubSeq(@, 1, Len(@) - 2), [@[Len(@) - 1] EXCEPT !.err = Top(g).err])
                    ELSE << >>]
    /\ pc' = [pc EXCEPT ![g] = IF Len(stack[g]) > 1 THEN "Log_ret" ELSE "idle"]
    /\ hist' = [hist EXCEPT ![g] = IF Len(stack[g]) > 1 THEN @ ELSE NoHist]
    /\ UNCHANGED <<LockValue, SyncMutex, tmp, calls, files, openHandles, crashed, faults,
                   scanVars, dbVars, callVars>>

\* ---- FileSave

\* file.WriteString(data) on the handle os.Create returned: written at offset 0
WriteAt0(content, data) ==
    IF Len(content) <= Len(data) THEN data
    ELSE data \o SubSeq(content, Len(data) + 1, Len(content))

\* file, err := os.Create(filePath); if err == nil && data != "" { defer file.Close()
FileSave_create(g) ==
    /\ pc[g] = "FileSave_create"
    /\ \E ok \in IOOutcomes :
        IF ok
        THEN /\ files' = [files EXCEPT ![Top(g).path] = [exists |-> TRUE, content |-> << >>]]
             /\ openHandles' = openHandles + 1
             /\ pc' = [pc EXCEPT ![g] = IF Top(g).data # << >> THEN "FileSave_write"
                                          ELSE "unlock_load"]
             /\ UNCHANGED stack
        ELSE /\ stack' = SetTop(g, [Top(g) EXCEPT !.err = TRUE])
             /\ pc' = [pc EXCEPT ![g] = "unlock_load"]
             /\ UNCHANGED <<files, openHandles>>
    /\ UNCHANGED <<LockValue, SyncMutex, tmp, calls, crashed, faults, hist,
                   scanVars, dbVars, callVars>>

\* _, err = file.WriteString(data); a handle whose file was removed writes to no path
FileSave_write(g) ==
    /\ pc[g] = "FileSave_write"
    /\ \E ok \in IOOutcomes :
        IF ok
        THEN /\ files' = [files EXCEPT ![Top(g).path] =
                            IF @.exists THEN [@ EXCEPT !.content = WriteAt0(@, Top(g).data)]
                            ELSE @]
             /\ UNCHANGED stack
        ELSE /\ stack' = SetTop(g, [Top(g) EXCEPT !.err = TRUE])
             /\ UNCHANGED files
    /\ pc' = [pc EXCEPT ![g] = "close"]
    /\ UNCHANGED <<LockValue, SyncMutex, tmp, calls, openHandles, crashed, faults, hist,
                   scanVars, dbVars, callVars>>

\* the deferred file.Close() of FileSave and FileAppend
close(g) ==
    /\ pc[g] = "close"
    /\ openHandles' = openHandles - 1
    /\ pc' = [pc EXCEPT ![g] = "unlock_load"]
    /\ UNCHANGED <<LockValue, SyncMutex, stack, tmp, calls, files, crashed, faults, hist,
                   scanVars, dbVars, callVars>>

\* ---- FileAppend

\* file.WriteString(data) on an O_APPEND handle: one write at the end of the file
WriteAppend(content, data) == content \o data

\* file, err := os.OpenFile(filePath, O_APPEND|O_CREATE|O_WRONLY, 0644)
FileAppend_open(g) ==
    /\ pc[g] = "FileAppend_open"
    /\ \E ok \in IOOutcomes :
        IF ok
        THEN /\ files' = [files EXCEPT ![Top(g).path] = [@ EXCEPT !.exists = TRUE]]
             /\ openHandles' = openHandles + 1
             /\ pc' = [pc EXCEPT ![g] = IF Top(g).data # << >> THEN "FileAppend_write"
                                          ELSE "unlock_load"]
             /\ UNCHANGED stack
        ELSE /\ stack' = SetTop(g, [Top(g) EXCEPT !.err = TRUE])
             /\ pc' = [pc EXCEPT ![g] = "unlock_load"]
             /\ UNCHANGED <<files, openHandles>>
    /\ UNCHANGED <<LockValue, SyncMutex, tmp, calls, crashed, faults, hist,
                   scanVars, dbVars, callVars>>

FileAppend_write(g) ==
    /\ pc[g] = "FileAppend_write"
    /\ \E ok \in IOOutcomes :
        IF ok
        THEN /\ files' = [files EXCEPT ![Top(g).path] =
                            IF @.exists
                            THEN [@ EXCEPT !.content = WriteAppend(@, Top(g).data)]
                            ELSE @]
             /\ UNCHANGED stack
        ELSE /\ stack' = SetTop(g, [Top(g) EXCEPT !.err = TRUE])
             /\ UNCHANGED files
    /\ pc' = [pc EXCEPT ![g] = "close"]
    /\ UNCHANGED <<LockValue, SyncMutex, tmp, calls, openHandles, crashed, faults, hist,
                   scanVars, dbVars, callVars>>

\* ---- FileRemove

\* return os.Remove(filePath)
FileRemove_remove(g) ==
    /\ pc[g] = "FileRemove_remove"
    /\ IF files[Top(g).path].exists
       THEN /\ files' = [files EXCEPT ![Top(g).path] = NoFile]
            /\ UNCHANGED stack
       ELSE /\ stack' = SetTop(g, [Top(g) EXCEPT !.err = TRUE])
            /\ UNCHANGED files
    /\ pc' = [pc EXCEPT ![g] = "unlock_load"]
    /\ UNCHANGED <<LockValue, SyncMutex, tmp, calls, openHandles, crashed, faults, hist,
                   scanVars, dbVars, callVars>>

\* ---- Log

\* FilePathExists(filePath): err == nil of os.Stat
FilePathExists(p) == files[p].exists

\* if !FilePathExists(logFilePath) { logLineString = header }
Log_exists(g) ==
    /\ pc[g] = "Log_exists"
    /\ stack' = SetTop(g, [Top(g) EXCEPT !.hdr = ~FilePathExists(LogFile)])
    /\ pc' = [pc EXCEPT ![g] = "Log_call"]
    /\ UNCHANGED <<LockValue, SyncMutex, tmp, calls, files, openHandles, crashed, faults, hist,
                   scanVars, dbVars, callVars>>

\* logLineString += entry; err = FileAppend(logFilePath, logLineString)
LogLineString(g) ==
    (IF Top(g).hdr THEN <<HeaderLine>> ELSE << >>) \o <<EntryLine(g, calls[g])>>

Log_call(g) ==
    /\ pc[g] = "Log_call"
    /\ stack' = [stack EXCEPT ![g] = Append(@, Frame("FileAppend", LogFile, LogLineString(g)))]
    /\ pc' = [pc EXCEPT ![g] = "lock_load"]
    /\ UNCHANGED <<LockValue, SyncMutex, tmp, calls, files, openHandles, crashed, faults, hist,
                   scanVars, dbVars, callVars>>

\* return err, through the deferred FileMutex.unlock()
Log_ret(g) ==
    /\ pc[g] = "Log_ret"
    /\ pc' = [pc EXCEPT ![g] = "unlock_load"]
    /\ UNCHANGED <<LockValue, SyncMutex, stack, tmp, calls, files, openHandles, crashed, faults, hist,
                   scanVars, dbVars, callVars>>

\* ---- the calls a goroutine makes

Enter(g, f) ==
    /\ pc[g] = "idle"
    /\ calls' = [calls EXCEPT ![g] = @ + 1]
    /\ stack' = [stack EXCEPT ![g] = <<f>>]
    /\ hist' = [hist EXCEPT ![g] = [NoHist EXCEPT !.entry = LockValue]]
    /\ pc' = [pc EXCEPT ![g] = "lock_load"]
    /\ UNCHANGED <<LockValue, SyncMutex, tmp, files, openHandles, crashed, faults,
                   scanVars, dbVars, callVars>>

CallFileSave(g) == \E p \in Paths, d \in DataArgs : Enter(g, Frame("FileSave", p, d))

CallFileAppend(g) == \E p \in Paths, d \in DataArgs : Enter(g, Frame("FileAppend", p, d))

CallFileRemove(g) == \E p \in Paths : Enter(g, Frame("FileRemove", p, << >>))

CallLog(g) == Enter(g, Frame("Log", LogFile, << >>))

\* ---- FileMutexStruct.Lock / Unlock (external, lock every time)

CallLock(g) ==
    /\ pc[g] = "idle"
    /\ calls' = [calls EXCEPT ![g] = @ + 1]
    /\ pc' = [pc EXCEPT ![g] = "Lock_load"]
    /\ UNCHANGED <<LockValue, SyncMutex, stack, tmp, files, openHandles, crashed, faults, hist,
                   scanVars, dbVars, callVars>>

Lock_load(g) ==
    /\ pc[g] = "Lock_load"
    /\ tmp' = [tmp EXCEPT ![g] = LockValue]
    /\ pc' = [pc EXCEPT ![g] = "Lock_store"]
    /\ UNCHANGED <<LockValue, SyncMutex, stack, calls, files, openHandles, crashed, faults, hist,
                   scanVars, dbVars, callVars>>

Lock_store(g) ==
    /\ pc[g] = "Lock_store"
    /\ LockValue' = tmp[g] + 1
    /\ pc' = [pc EXCEPT ![g] = "Lock_Lock"]
    /\ UNCHANGED <<SyncMutex, stack, tmp, calls, files, openHandles, crashed, faults, hist,
                   scanVars, dbVars, callVars>>

\* Mutant: Lock() locks only on the first acquisition, as lock() does.
LockMustAcquire_OnlyFirst(v) == v = 1

\* Whether Lock() goes on to fm.SyncMutex.Lock() with the counter at v: always
LockMustAcquire(v) == TRUE

\* fm.SyncMutex.Lock(): blocks while the mutex is locked
Lock_Lock(g) ==
    /\ pc[g] = "Lock_Lock"
    /\ IF LockMustAcquire(LockValue)
       THEN /\ SyncMutex = 0
            /\ SyncMutex' = g
       ELSE UNCHANGED SyncMutex
    /\ pc' = [pc EXCEPT ![g] = "idle"]
    /\ UNCHANGED <<LockValue, stack, tmp, calls, files, openHandles, crashed, faults, hist,
                   scanVars, dbVars, callVars>>

CallUnlock(g) ==
    /\ pc[g] = "idle"
    /\ calls' = [calls EXCEPT ![g] = @ + 1]
    /\ pc' = [pc EXCEPT ![g] = "Unlock_load"]
    /\ UNCHANGED <<LockValue, SyncMutex, stack, tmp, files, openHandles, crashed, faults, hist,
                   scanVars, dbVars, callVars>>

Unlock_load(g) ==
    /\ pc[g] = "Unlock_load"
    /\ tmp' = [tmp EXCEPT ![g] = LockValue]
    /\ pc' = [pc EXCEPT ![g] = "Unlock_store"]
    /\ UNCHANGED <<LockValue, SyncMutex, stack, calls, files, openHandles, crashed, faults, hist,
                   scanVars, dbVars, callVars>>

Unlock_store(g) ==
    /\ pc[g] = "Unlock_store"
    /\ LockValue' = tmp[g] - 1
    /\ pc' = [pc EXCEPT ![g] = "Unlock_Unlock"]
    /\ UNCHANGED <<SyncMutex, stack, tmp, calls, files, openHandles, crashed, faults, hist,
                   scanVars, dbVars, callVars>>

\* Whether Unlock() goes on to fm.SyncMutex.Unlock() with the counter at v: always
UnlockMustRelease(v) == TRUE

\* fm.SyncMutex.Unlock(): "fatal error: sync: unlock of unlocked mutex" when not locked
Unlock_Unlock(g) ==
    /\ pc[g] = "Unlock_Unlock"
    /\ IF UnlockMustRelease(LockValue)
       THEN IF SyncMutex = 0
            THEN /\ crashed' = TRUE
                 /\ pc' = [h \in Procs |-> "fatal"]
                 /\ UNCHANGED SyncMutex
            ELSE /\ SyncMutex' = 0
                 /\ pc' = [pc EXCEPT ![g] = "idle"]
                 /\ UNCHANGED crashed
       ELSE /\ pc' = [pc EXCEPT ![g] = "idle"]
            /\ UNCHANGED <<SyncMutex, crashed>>
    /\ UNCHANGED <<LockValue, stack, tmp, calls, files, openHandles, faults, hist,
                   scanVars, dbVars, callVars>>

\* ------------------------------------------------------- row scanning

\* Rows a cursor delivers at most, and columns it has at most.
MaxRows == 2

MaxCols == 2

ColumnNames == {"a", "b"}

\* Declared types the cursors of the model use.
DeclaredTypes == {"int", "DECIMAL", "BLOB", "BOOL", "VARCHAR"}

\* What a driver hands to Scan for one cell (driver.Value): nil for NULL, []byte,
\* int64, float64, string, bool, time.Time.
DriverKinds == {"nil", "bytes", "int64", "float64", "string", "bool", "time"}

\* The cell kinds of the model's rows.
CellKinds == {"nil", "bytes", "int64", "time"}

Cell(k) == [k |-> k, v |-> "1"]

\* scans[i] = &scans[i]: what a destination holds when Scan did not assign it
UnassignedCell == [k |-> "pointer", v |-> "1"]

ColumnSeqs == UNION {[1..n -> ColumnNames \X DeclaredTypes] : n \in 1..MaxCols}

ScanIdle ==
    /\ variant \in {"sqlite", "mysql"}
    /\ columns \in ColumnSeqs
    /\ columnTypes = << >>
    /\ scanpc = "idle"
    /\ records = << >>
    /\ coerced = << >>
    /\ scanErr = "nil"
    /\ failure = [kind |-> "none", row |-> 0]

ColName(i) == columns[i][1]

ColType(i) == columns[i][2]

\* A map that keeps the type of the first column of a name.
GetRowsInfoMap_FirstWins(ok) ==
    IF ok
    THEN [n \in {ColName(i) : i \in 1..Len(columns)} |->
            ColType(CHOOSE i \in 1..Len(columns) :
                        /\ ColName(i) = n
                        /\ \A j \in 1..Len(columns) : ColName(j) = n => j >= i)]
    ELSE << >>

\* GetRowsInfo: columnInfoMap[Name] = Type for each column in order (a later
\* column of the same name overwrites); empty when ColumnTypes() failed
GetRowsInfoMap(ok) ==
    IF ok
    THEN [n \in {ColName(i) : i \in 1..Len(columns)} |->
            ColType(CHOOSE i \in 1..Len(columns) :
                        /\ ColName(i) = n
                        /\ \A j \in 1..Len(columns) : ColName(j) = n => j <= i)]
    ELSE << >>

\* A switch on the declared type as the catalog spells it.
ToUpper_Identity(t) == t

\* strings.ToUpper on the type names of the model
ToUpper(t) ==
    CASE t = "int" -> "INT"
      [] t = "varchar" -> "VARCHAR"
      [] OTHER -> t

IntegerTypes ==
    {"BIGINT", "BIT", "BIT VARYING", "INT", "INTEGER", "MEDIUMINT", "SERIAL", "SMALLINT",
     "SMALLSERIAL", "TINYINT"}

FloatTypes == {"DEC", "DECIMAL", "DOUBLE", "DOUBLE PRECISION", "FIXED", "FLOAT", "NUMERIC", "REAL"}

BytesTypes == {"BIGSERIAL", "BINARY", "BLOB", "BYTE", "BYTEA", "LONGBLOB", "TINYBLOB", "VARBINARY"}

BoolTypes == {"BOOL", "BOOLEAN"}

\* system.ConvertToInt / ConvertToFloat / ConvertToBytes / ConvertToBool: the kind of
\* value each returns
ConvertTo(kind, value) == [k |-> kind, v |-> value.v]

\* the switch of mysqldb's ScanRows on the upper-cased declared type
MySQLCoerce(value, Type) ==
    CASE Type \in IntegerTypes -> ConvertTo("int", value)
      [] Type \in FloatTypes -> ConvertTo("float64", value)
      [] Type \in BytesTypes -> ConvertTo("bytes", value)
      [] Type \in BoolTypes -> ConvertTo("bool", value)
      [] OTHER -> value

\* value.([]byte): the assertion panics unless the cell holds a byte slice
IsBytes(value) == value.k = "bytes"

\* the type switch of sqlitedb's ScanRows: the integer kinds become int, float32
\* becomes float64, every other value is kept
SQLiteNarrow(value) ==
    CASE value.k \in {"int8", "int16", "int32", "int64", "uint", "uint8", "uint16", "uint32",
                      "uint64"} -> [value EXCEPT !.k = "int"]
      [] value.k = "float32" -> [value EXCEPT !.k = "float64"]
      [] OTHER -> value

\* record[columns[index]] = value for index in order: the last column of a name wins
MakeRecord(cells) ==
    [n \in {ColName(i) : i \in 1..Len(columns)} |->
        cells[CHOOSE i \in 1..Len(columns) :
                 /\ ColName(i) = n
                 /\ \A j \in 1..Len(columns) : ColName(j) = n => j <= i]]

\* The rows a driver can deliver for the cursor's columns: one cell per column.
RowsOfCursor == [1..Len(columns) -> {Cell(k) : k \in CellKinds}]

\* sqlRows.Scan(scans...): the cells on success; on failure the destinations keep
\* what the loop before it stored in them, and the error is dropped
Scanned(cells, scanOK) ==
    IF scanOK THEN cells ELSE [i \in 1..Len(columns) |-> UnassignedCell]

NoteFailure(kind) ==
    IF failure.kind = "none" THEN [kind |-> kind, row |-> Len(records) + 1] ELSE failure

\* mysqldb: _, columnTypes, _ := conn.GetRowsInfo(sqlRows); both packages:
\* columns, err := sqlRows.Columns(), which fails on a closed cursor
ScanRows_begin ==
    /\ scanpc = "idle"
    /\ \E ok \in BOOLEAN :
        /\ columnTypes' = IF variant = "mysql" THEN GetRowsInfoMap(ok) ELSE << >>
        /\ scanpc' = IF ok THEN "loop" ELSE "done"
        /\ scanErr' = IF ok THEN "nil" ELSE "sql: Rows are closed"
    /\ UNCHANGED <<variant, columns, records, coerced, failure, fileVars, dbVars, callVars>>

\* sqlitedb: one iteration of for sqlRows.Next() { ... records = append(records, record) }
ScanRows_row_sqlite ==
    /\ scanpc = "loop"
    /\ variant = "sqlite"
    /\ Len(records) < MaxRows
    /\ \E cells \in RowsOfCursor, scanOK \in BOOLEAN :
        LET scans == Scanned(cells, scanOK)
            values == [i \in 1..Len(columns) |-> SQLiteNarrow(scans[i])]
        IN  /\ records' = Append(records, MakeRecord(values))
            /\ coerced' = values
            /\ failure' = IF scanOK THEN failure ELSE NoteFailure("scan")
    /\ UNCHANGED <<variant, columns, columnTypes, scanpc, scanErr, fileVars, dbVars, callVars>>

\* mysqldb: one iteration; value = string(value.([]byte)) panics on any other cell
ScanRows_row_mysql ==
    /\ scanpc = "loop"
    /\ variant = "mysql"
    /\ Len(records) < MaxRows
    /\ \E cells \in RowsOfCursor, scanOK \in BOOLEAN :
        LET scans == Scanned(cells, scanOK)
            values == [i \in 1..Len(columns) |->
                          MySQLCoerce([k |-> "string", v |-> scans[i].v],
                                      ToUpper(columnTypes[ColName(i)]))]
        IN  /\ failure' = IF scanOK THEN failure ELSE NoteFailure("scan")
            /\ IF \A i \in 1..Len(columns) : IsBytes(scans[i])
               THEN /\ records' = Append(records, MakeRecord(values))
                    /\ coerced' = values
                    /\ UNCHANGED scanpc
               ELSE /\ scanpc' = "panic"
                    /\ UNCHANGED <<records, coerced>>
    /\ UNCHANGED <<variant, columns, columnTypes, scanErr, fileVars, dbVars, callVars>>

\* sqlRows.Next() returns false because the driver failed: the loop ends, and
\* nothing reads sqlRows.Err()
ScanRows_nextFails ==
    /\ scanpc = "loop"
    /\ Len(records) < MaxRows
    /\ failure' = NoteFailure("next")
    /\ scanpc' = "done"
    /\ UNCHANGED <<variant, columns, columnTypes, records, coerced, scanErr, fileVars, dbVars, callVars>>

\* sqlRows.Next() returns false at the end of the result set; return records, err
ScanRows_end ==
    /\ scanpc = "loop"
    /\ scanpc' = "done"
    /\ UNCHANGED <<variant, columns, columnTypes, records, coerced, scanErr, failure, fileVars,
                   dbVars, callVars>>

\* ------------------------------------------------------------ connections

\* Strings are sequences of characters: "ab" is <<"a", "b">>, "" is << >>.
Letters ==
    {"a", "b", "c", "d", "e", "f", "g", "h", "i", "j", "k", "l", "m", "n", "o", "p", "q", "r",
     "s", "t", "u", "v", "w", "x", "y", "z", "A", "B", "C", "D", "E", "F", "G", "H", "I", "J",
     "K", "L", "M", "N", "O", "P", "Q", "R", "S", "T", "U", "V", "W", "X", "Y", "Z"}

Digits == {"0", "1", "2", "3", "4", "5", "6", "7", "8", "9"}

\* regexp.MatchString(`^[_A-Za-z]+`, s): s starts with one or more of the class
MatchesLeadingNameChars(s) == Len(s) >= 1 /\ s[1] \in Letters \cup {"_"}

\* regexp.MatchString(`^[_A-Za-z0-9]*$`, s): all of s is of the class
MatchesOnlyNameChars(s) == \A i \in 1..Len(s) : s[i] \in Letters \cup Digits \cup {"_"}

\* A check of the leading characters alone.
CheckTableName_LeadingOnly(tableName) == MatchesLeadingNameChars(tableName)

CheckTableName(tableName) ==
    IF ~MatchesLeadingNameChars(tableName) THEN FALSE ELSE MatchesOnlyNameChars(tableName)

CheckDatabaseName(databaseName) == CheckTableName(databaseName)

\* Longest schema or table name of the model, and the characters names are made of.
MaxNameLen == 2

NameAlphabet == {"a", "_", "1", "-"}

Names == UNION {[1..n -> NameAlphabet] : n \in 0..MaxNameLen}

\* The values MYSQL_DATABASE has in the model, and the table names callers pass.
EnvDatabases == {<< >>, <<"a">>, <<"-">>}

TableNames == {<< >>, <<"t">>, <<"1">>}

\* sql.Open calls a behaviour makes at most.
MaxConnects == 2

\* What an operation reports: its error ("nil" for none, "panic" for a run-time
\* panic), the statements it had the driver run, and whether conn.DB was nil.
Report(op, err, stmts) == [op |-> op, err |-> err, stmts |-> stmts, nilDB |-> conn.DB = 0]

Stmt(sql, db, table) == [sql |-> sql, db |-> db, table |-> table]

NoName == << >>

\* No operation has panicked (a panic ends the process).
Alive == last.err # "panic"

\* if conn.DB == nil { return nil, errors.New("not connected") }
\* return conn.DB.Exec(strings.TrimSpace(query), args...)      (also Query)
Checked(op) ==
    /\ Alive
    /\ IF conn.DB = 0
       THEN last' = Report(op, "not connected", << >>)
       ELSE \E ok \in BOOLEAN :
               last' = Report(op, IF ok THEN "nil" ELSE "driver error",
                              <<Stmt("query", NoName, NoName)>>)
    /\ UNCHANGED <<conn, env, dbFiles, openDBs, connects, fileVars, scanVars, callVars>>

\* return conn.DB.QueryRow(...) and rows, err = conn.DB.Query(...) with no test of
\* conn.DB: a method of a nil *sql.DB dereferences it and panics
Unchecked(op) ==
    /\ Alive
    /\ IF conn.DB = 0
       THEN last' = Report(op, "panic", << >>)
       ELSE \E ok \in BOOLEAN :
               last' = Report(op, IF ok THEN "nil" ELSE "driver error",
                              <<Stmt("query", NoName, NoName)>>)
    /\ UNCHANGED <<conn, env, dbFiles, openDBs, connects, fileVars, scanVars, callVars>>

\* A Connect that closes the handle the configuration holds before it opens its own.
Opened_ClosingPrevious(handles, h) == (handles \ {conn.DB}) \cup {h}

\* conn.DB, err = sql.Open(...): the open handles after handle h was opened. The
\* handle conn.DB held is overwritten, not closed.
Opened(handles, h) == handles \cup {h}

\* A Close that keeps the handle when the driver fails to close it.
CloseConn_KeepsHandleOnError ==
    /\ Alive
    /\ \E ok \in BOOLEAN :
        /\ last' = Report("Close", IF ok \/ conn.DB = 0 THEN "nil" ELSE "driver error", << >>)
        /\ openDBs' = IF ok THEN openDBs \ {conn.DB} ELSE openDBs
        /\ conn' = IF ok THEN [conn EXCEPT !.DB = 0] ELSE conn
    /\ UNCHANGED <<env, dbFiles, connects, fileVars, scanVars, callVars>>

\* if conn.DB != nil { err = conn.DB.Close() }; conn.DB = nil; return err
CloseConn ==
    /\ Alive
    /\ IF conn.DB # 0
       THEN \E ok \in BOOLEAN :
               last' = Report("Close", IF ok THEN "nil" ELSE "driver error", << >>)
       ELSE last' = Report("Close", "nil", << >>)
    /\ openDBs' = openDBs \ {conn.DB}
    /\ conn' = [conn EXCEPT !.DB = 0]
    /\ UNCHANGED <<env, dbFiles, connects, fileVars, scanVars, callVars>>

\* ---- mysqldb

\* The checkENV arguments of Connect(checkENV ...bool): none, false, true.
CheckENVArgs == {"absent", "false", "true"}

\* if checkENV != nil && checkENV[0] { ... os.Getenv ... }
OverlayENV(c, checkENV) ==
    IF checkENV = "true"
    THEN [c EXCEPT !.Database = IF c.Database = << >> THEN env.MYSQL_DATABASE ELSE c.Database,
                   !.Host = env.MYSQL_HOST,
                   !.User = env.MYSQL_USER,
                   !.Password = env.MYSQL_PWD,
                   !.AllowNativePasswords = (env.MYSQL_ALLOW_NATIVE_PASSWORDS = "true")]
    ELSE c

\* A name check that looks at the leading characters only.
RejectsDatabase_LeadingOnly(database) ==
    database # << >> /\ ~MatchesLeadingNameChars(database)

\* if conn.Database != "" && !CheckDatabaseName(conn.Database) { return error }
RejectsDatabase(database) == database # << >> /\ ~CheckDatabaseName(database)

\* One stage of Connect: it runs when every stage before it succeeded and its
\* condition holds, and it fails when it is the stage failAt.
Stage(r, name, runs, failAt, stmts) ==
    IF r.err = "nil" /\ runs
    THEN [err |-> IF failAt = name THEN name \o " error" ELSE "nil",
          stages |-> Append(r.stages, name),
          stmts |-> r.stmts \o stmts,
          opened |-> r.opened \/ (name = "open" /\ failAt # "open")]
    ELSE r

\* Stages that go on to USE after a failed CREATE DATABASE.
ConnectStages_UseAfterFailedCreate(c, failAt) ==
    LET start == [err |-> "nil", stages |-> << >>, stmts |-> << >>, opened |-> FALSE]
        open == Stage(start, "open", TRUE, failAt, << >>)
        ping == Stage(open, "ping", TRUE, failAt, << >>)
        create == Stage(ping, "create", c.Database # << >> /\ c.AutoCreate, failAt,
                        <<Stmt("CREATE DATABASE IF NOT EXISTS", c.Database, NoName)>>)
        use == Stage([create EXCEPT !.err = ping.err], "use", c.Database # << >>, failAt,
                     <<Stmt("USE", c.Database, NoName)>>)
    IN  [use EXCEPT !.err = IF create.err # "nil" THEN create.err ELSE use.err]

\* The stages of Connect after the name check, the first failing one being failAt:
\* conn.DB, err = sql.Open(...); if err == nil { err = conn.DB.Ping();
\* if err == nil && conn.Database != "" { if conn.AutoCreate { CREATE DATABASE IF NOT
\* EXISTS }; if err == nil { USE } } }; return err
ConnectStages(c, failAt) ==
    LET start == [err |-> "nil", stages |-> << >>, stmts |-> << >>, opened |-> FALSE]
        open == Stage(start, "open", TRUE, failAt, << >>)
        ping == Stage(open, "ping", TRUE, failAt, << >>)
        create == Stage(ping, "create", c.Database # << >> /\ c.AutoCreate, failAt,
                        <<Stmt("CREATE DATABASE IF NOT EXISTS", c.Database, NoName)>>)
    IN  Stage(create, "use", c.Database # << >>, failAt, <<Stmt("USE", c.Database, NoName)>>)

\* What Connect of mysqldb reports, with the stages it ran and its checkENV argument.
MySQLReport(err, stmts, stages, checkENV) ==
    [op |-> "Connect", err |-> err, stmts |-> stmts, nilDB |-> conn.DB = 0, stages |-> stages,
     checkENV |-> checkENV]

MySQLConnect ==
    /\ Alive
    /\ variant = "mysql"
    /\ connects < MaxConnects
    /\ \E checkENV \in CheckENVArgs, failAt \in {"none", "open", "ping", "create", "use"} :
        LET c == OverlayENV(conn, checkENV)
            r == ConnectStages(c, failAt)
        IN  IF RejectsDatabase(c.Database)
            THEN /\ conn' = c
                 /\ last' = MySQLReport("invalid database name", << >>, << >>, checkENV)
                 /\ connects' = connects + 1
                 /\ UNCHANGED openDBs
            ELSE /\ conn' = [c EXCEPT !.DB = IF r.opened THEN connects + 1 ELSE 0]
                 /\ openDBs' = IF r.opened THEN Opened(openDBs, connects + 1) ELSE openDBs
                 /\ connects' = connects + 1
                 /\ last' = MySQLReport(r.err, r.stmts, r.stages, checkENV)
    /\ UNCHANGED <<env, dbFiles, fileVars, scanVars, callVars>>

MySQLExec == variant = "mysql" /\ Checked("Exec")

MySQLQuery == variant = "mysql" /\ Checked("Query")

MySQLQueryRow == variant = "mysql" /\ Unchecked("QueryRow")

MySQLQueryRecords == variant = "mysql" /\ Unchecked("QueryRecords")

MySQLClose == variant = "mysql" /\ CloseConn

\* Tests that leave out the checks of conn.Database.
MySQLPrecheck_NoDatabaseCheck(tableName) ==
    IF conn.DB = 0 THEN "not connected"
    ELSE IF tableName = << >> THEN "table name cannot be blank"
    ELSE IF ~CheckTableName(tableName) THEN "invalid table name"
    ELSE "nil"

\* The tests TableExists, GetSQLTableInfo and GetTableInfo of mysqldb make before
\* they query: the error they return, "nil" when they go on to the query
MySQLPrecheck(tableName) ==
    IF conn.DB = 0 THEN "not connected"
    ELSE IF conn.Database = << >> THEN "database name cannot be blank"
    ELSE IF ~CheckDatabaseName(conn.Database) THEN "invalid database name"
    ELSE IF tableName = << >> THEN "table name cannot be blank"
    ELSE IF ~CheckTableName(tableName) THEN "invalid table name"
    ELSE "nil"

\* One of the three introspection methods: op issues sql when the tests pass.
MySQLIntrospect(op, sql) ==
    /\ Alive
    /\ variant = "mysql"
    /\ \E tableName \in TableNames, ok \in BOOLEAN :
        LET pre == MySQLPrecheck(tableName)
        IN  last' = IF pre # "nil" THEN Report(op, pre, << >>)
                    ELSE Report(op, IF ok THEN "nil" ELSE "driver error",
                                <<Stmt(sql, conn.Database, tableName)>>)
    /\ UNCHANGED <<conn, env, dbFiles, openDBs, connects, fileVars, scanVars, callVars>>

MySQLTableExists ==
    MySQLIntrospect("TableExists", "SELECT COUNT(*) FROM INFORMATION_SCHEMA.TABLES")

MySQLGetSQLTableInfo ==
    MySQLIntrospect("GetSQLTableInfo", "SELECT FROM INFORMATION_SCHEMA.COLUMNS WHERE ?")

MySQLGetTableInfo == MySQLIntrospect("GetTableInfo", "SELECT * FROM LIMIT 1")

\* A MySQLdbStruct as a caller builds it, and the environment. MYSQL_AUTO_CREATE stands
\* for a variable that holds a create flag; Connect reads none.
MySQLInit ==
    /\ variant = "mysql"
    /\ conn \in [Host : {"h"}, User : {"u"}, Password : {"p"}, AllowNativePasswords : {FALSE},
                 Database : Names, AutoCreate : BOOLEAN, DB : {0}]
    /\ env \in [MYSQL_DATABASE : EnvDatabases, MYSQL_HOST : {"eh"}, MYSQL_USER : {"eu"},
                MYSQL_PWD : {"ep"}, MYSQL_ALLOW_NATIVE_PASSWORDS : {"true"},
                MYSQL_AUTO_CREATE : {"true"}]
    /\ dbFiles = {}

\* ---- the path helpers of the file package that sqlitedb's Connect uses

RECURSIVE TrimRight(_, _)
\* strings.TrimRight(s, c) for a single character c
TrimRight(s, c) ==
    IF Len(s) > 0 /\ s[Len(s)] = c THEN TrimRight(SubSeq(s, 1, Len(s) - 1), c) ELSE s

RECURSIVE TrimLeft(_, _)
\* strings.TrimLeft(s, c) for a single character c
TrimLeft(s, c) ==
    IF Len(s) > 0 /\ s[1] = c THEN TrimLeft(SubSeq(s, 2, Len(s)), c) ELSE s

\* The last position of character c in s, 0 when there is none.
LastIndex(s, c) ==
    IF \E i \in 1..Len(s) : s[i] = c
    THEN CHOOSE i \in 1..Len(s) : s[i] = c /\ \A j \in (i + 1)..Len(s) : s[j] # c
    ELSE 0

\* filepath.Ext: the suffix from the last dot of the last element, "" if none
Ext(path) ==
    IF LastIndex(path, ".") > LastIndex(path, "/")
    THEN SubSeq(path, LastIndex(path, "."), Len(path))
    ELSE << >>

\* filepath.Base: the last element, trailing slashes removed; "." for "", "/" for slashes
Base(path) ==
    IF path = << >> THEN <<".">>
    ELSE LET p == TrimRight(path, "/")
         IN  IF p = << >> THEN <<"/">> ELSE SubSeq(p, LastIndex(p, "/") + 1, Len(p))

\* filepath.Dir, for paths without "." or ".." elements and without doubled slashes
Dir(path) ==
    IF LastIndex(path, "/") = 0 THEN <<".">>
    ELSE IF TrimRight(SubSeq(path, 1, LastIndex(path, "/")), "/") = << >> THEN <<"/">>
    ELSE TrimRight(SubSeq(path, 1, LastIndex(path, "/")), "/")

\* The source file of sqlitedb, which runtime.Caller(1) names inside a file helper
\* that Connect calls without an argument or with "": "/p/q.go" in the model.
ThisFile == <<"/", "p", "/", "q", ".", "g", "o">>

\* if FilePath != nil && FilePath[0] != "" { filePath = FilePath[0] } else { runtime.Caller(1) }
ArgOrCaller(arg) == IF arg # << >> THEN arg ELSE ThisFile

\* file.Path
Path(arg) ==
    IF Ext(ArgOrCaller(arg)) # << >>
    THEN TrimRight(Dir(ArgOrCaller(arg)), "/") \o <<"/">>
    ELSE TrimRight(ArgOrCaller(arg), "/") \o <<"/">>

\* file.FilePathJoin
FilePathJoin(path, filename) == TrimRight(path, "/") \o <<"/">> \o filename

\* file.FilePathBase
FilePathBase(arg) ==
    LET filePath == ArgOrCaller(arg)
    IN  TrimRight(SubSeq(filePath, 1, Len(filePath) - Len(Ext(filePath))), "/")

\* file.FilenameBase
FilenameBase(arg) ==
    LET filePath == Base(ArgOrCaller(arg))
    IN  SubSeq(filePath, 1, Len(filePath) - Len(Ext(filePath)))

\* file.Filename
Filename(arg) ==
    LET filePath == ArgOrCaller(arg)
    IN  IF filePath[Len(filePath)] = "/" THEN << >> ELSE Base(filePath)

\* The extension with its dot.
FilenameExt_WithDot(arg) == Ext(ArgOrCaller(arg))

\* file.FilenameExt
FilenameExt(arg) == TrimLeft(Ext(ArgOrCaller(arg)), ".")

\* ---- sqlitedb

\* The extension and base name Connect derives from a name: the explicit extension,
\* else the name's suffix (and then the name loses it), else "db"
DeriveExt(database, databaseExt) ==
    LET ext == IF databaseExt = << >> THEN FilenameExt(database) ELSE databaseExt
    IN  IF ext # << >>
        THEN [Database |-> FilenameBase(database), DatabaseExt |-> ext]
        ELSE [Database |-> database, DatabaseExt |-> <<"d", "b">>]

\* The normalization of Connect: FilePath, Database and DatabaseExt as it sets them.
\* callerFile is the file runtime.Caller(1) names ("" when it cannot).
Normalize(c, callerFile) ==
    IF c.Database # << >>
    THEN LET d == DeriveExt(c.Database, c.DatabaseExt)
             dir == IF c.FilePath = << >> THEN Path(<< >>) ELSE c.FilePath
         IN  [FilePath |-> FilePathJoin(dir, d.Database \o <<".">> \o d.DatabaseExt),
              Database |-> d.Database, DatabaseExt |-> d.DatabaseExt]
    ELSE LET filePath == IF c.FilePath = << >>
                         THEN FilePathBase(callerFile) \o <<".", "d", "b">>
                         ELSE c.FilePath
             database == Filename(filePath)
             d == IF database # << >> THEN DeriveExt(database, c.DatabaseExt)
                  ELSE [Database |-> database, DatabaseExt |-> c.DatabaseExt]
         IN  [FilePath |-> filePath, Database |-> d.Database, DatabaseExt |-> d.DatabaseExt]

\* The files the callers of the model's Connect may be.
CallerFiles == {<< >>, <<"/", "c", "/", "m", ".", "g", "o">>}

\* What Connect of sqlitedb reports, with the file runtime.Caller(1) named to it.
SQLiteReport(err, callerFile) ==
    [op |-> "Connect", err |-> err, stmts |-> << >>, nilDB |-> conn.DB = 0,
     caller |-> callerFile]

\* A refusal of every missing file.
RefusesMissingFile_IgnoringAutoCreate(autoCreate, filePath) == filePath \notin dbFiles

\* if !conn.AutoCreate && !file.FilePathExists(filePath) { return error }
RefusesMissingFile(autoCreate, filePath) == ~autoCreate /\ filePath \notin dbFiles

SQLiteConnect ==
    /\ Alive
    /\ variant = "sqlite"
    /\ connects < MaxConnects
    /\ \E callerFile \in CallerFiles :
        LET n == Normalize(conn, callerFile)
            c == [conn EXCEPT !.FilePath = n.FilePath, !.Database = n.Database,
                              !.DatabaseExt = n.DatabaseExt]
        IN  IF RefusesMissingFile(conn.AutoCreate, n.FilePath)
            THEN /\ conn' = c
                 /\ last' = SQLiteReport("database file does not exist", callerFile)
                 /\ connects' = connects + 1
                 /\ UNCHANGED openDBs
            ELSE /\ conn' = [c EXCEPT !.DB = connects + 1]
                 /\ openDBs' = Opened(openDBs, connects + 1)
                 /\ connects' = connects + 1
                 /\ last' = SQLiteReport("nil", callerFile)
    /\ UNCHANGED <<env, dbFiles, fileVars, scanVars, callVars>>

SQLiteExec == variant = "sqlite" /\ Checked("Exec")

SQLiteQuery == variant = "sqlite" /\ Checked("Query")

SQLiteQueryRow == variant = "sqlite" /\ Unchecked("QueryRow")

SQLiteQueryRecords == variant = "sqlite" /\ Unchecked("QueryRecords")

SQLiteClose == variant = "sqlite" /\ CloseConn

\* GetSQLTableInfo and GetTableInfo of sqlitedb: not connected, blank table, the query
SQLiteIntrospect(op, sql) ==
    /\ Alive
    /\ variant = "sqlite"
    /\ \E table \in TableNames, ok \in BOOLEAN :
        last' = IF conn.DB = 0 THEN Report(op, "not connected", << >>)
                ELSE IF table = << >> THEN Report(op, "table cannot be blank", << >>)
                ELSE Report(op, IF ok THEN "nil" ELSE "driver error",
                            <<Stmt(sql, NoName, table)>>)
    /\ UNCHANGED <<conn, env, dbFiles, openDBs, connects, fileVars, scanVars, callVars>>

SQLiteGetSQLTableInfo == SQLiteIntrospect("GetSQLTableInfo", "SELECT FROM PRAGMA_TABLE_INFO(?)")

SQLiteGetTableInfo == SQLiteIntrospect("GetTableInfo", "SELECT * FROM LIMIT 1")

\* The configurations of the model's SQLiteDBStruct: "", "/d", "/d/g.s" as FilePath,
\* "", "f", "f.s", "a.b.s" as Database, "", "s", "t" as DatabaseExt.
SQLiteFilePaths == {<< >>, <<"/", "d">>, <<"/", "d", "/", "g", ".", "s">>}

SQLiteDatabases == {<< >>, <<"f">>, <<"f", ".", "s">>, <<"a", ".", "b", ".", "s">>}

SQLiteExts == {<< >>, <<"s">>, <<"t">>}

\* The database files on disk: none, or "/d/f.s", "/d/g.s" and "/p/f.db".
FilesOnDisk ==
    {<<"/", "d", "/", "f", ".", "s">>, <<"/", "d", "/", "g", ".", "s">>,
     <<"/", "p", "/", "f", ".", "d", "b">>}

SQLiteInit ==
    /\ variant = "sqlite"
    /\ conn \in [FilePath : SQLiteFilePaths, Database : SQLiteDatabases,
                 DatabaseExt : SQLiteExts, AutoCreate : BOOLEAN, DB : {0}]
    /\ env = << >>
    /\ dbFiles \in {{}, FilesOnDisk}

\* ---- specifications

\* The parts of the state a specification leaves alone.
CallUnused == input = << >> /\ output = [fn |-> "none"]

FileUnused == FileInit /\ faults = FALSE

ScanUnused ==
    /\ variant = "sqlite"
    /\ columns = << >>
    /\ columnTypes = << >>
    /\ scanpc = "idle"
    /\ records = << >>
    /\ coerced = << >>
    /\ scanErr = "nil"
    /\ failure = [kind |-> "none", row |-> 0]

DBUnused ==
    /\ conn = [DB |-> 0]
    /\ env = << >>
    /\ dbFiles = {}
    /\ openDBs = {}
    /\ connects = 0
    /\ last = [op |-> "none"]

\* ---- the specification of the connection wrappers

DBInit ==
    /\ FileUnused
    /\ CallUnused
    /\ columns = << >> /\ columnTypes = << >> /\ scanpc = "idle" /\ records = << >>
    /\ coerced = << >>
    /\ scanErr = "nil" /\ failure = [kind |-> "none", row |-> 0]
    /\ SQLiteInit \/ MySQLInit
    /\ openDBs = {}
    /\ connects = 0
    /\ last = [op |-> "none", err |-> "nil", stmts |-> << >>, nilDB |-> TRUE]

DBNext ==
    \/ SQLiteConnect \/ SQLiteClose
    \/ SQLiteExec \/ SQLiteQuery \/ SQLiteQueryRow \/ SQLiteQueryRecords
    \/ SQLiteGetSQLTableInfo \/ SQLiteGetTableInfo
    \/ MySQLConnect \/ MySQLClose
    \/ MySQLExec \/ MySQLQuery \/ MySQLQueryRow \/ MySQLQueryRecords
    \/ MySQLTableExists \/ MySQLGetSQLTableInfo \/ MySQLGetTableInfo

DBSpec == DBInit /\ [][DBNext]_vars

\* ---- the client-server wrapper with a caller that also assigns the Database field

\* The values a caller assigns to conn.Database between calls: "", "b" and "-".
AssignedDatabases == {<< >>, <<"b">>, <<"-">>}

\* conn.Database = database, by the caller: Database is an exported field
SetDatabase ==
    /\ Alive
    /\ variant = "mysql"
    /\ \E database \in AssignedDatabases : conn' = [conn EXCEPT !.Database = database]
    /\ UNCHANGED <<env, dbFiles, openDBs, connects, last, fileVars, scanVars, callVars>>

FieldInit == DBInit /\ variant = "mysql"

FieldNext ==
    \/ SetDatabase
    \/ MySQLConnect \/ MySQLClose
    \/ MySQLExec \/ MySQLQuery \/ MySQLQueryRow \/ MySQLQueryRecords
    \/ MySQLTableExists \/ MySQLGetSQLTableInfo \/ MySQLGetTableInfo

FieldSpec == FieldInit /\ [][FieldNext]_vars

\* ---- column information (GetRowsInfo, GetTableInfo, GetSQLTableInfo of either package)

\* columInfoRows of GetRowsInfo: {index + 1, Name, Type} for each column of the cursor
ColumnInfoRows ==
    [i \in 1..Len(columns) |-> [Sequence |-> i, Name |-> ColName(i), Type |-> ColType(i)]]

\* The rows the catalog query of GetSQLTableInfo selects for a table of these columns,
\* in the catalog's order: cid (from 0) + 1 in sqlitedb, ORDINAL_POSITION in mysqldb.
CatalogRows ==
    [i \in 1..Len(columns) |->
        [Sequence |-> IF variant = "sqlite" THEN (i - 1) + 1 ELSE i,
         Name |-> ColName(i), Type |-> ColType(i)]]

\* columnInfoMap[Name] = Type for each appended row in order
ColumnInfoMap(rows) ==
    [n \in {rows[i].Name : i \in 1..Len(rows)} |->
        rows[CHOOSE i \in 1..Len(rows) :
                /\ rows[i].Name = n
                /\ \A j \in 1..Len(rows) : rows[j].Name = n => j <= i].Type]

ColumnInfo(fn, rows, err) == [fn |-> fn, rows |-> rows, map |-> ColumnInfoMap(rows), err |-> err]

\* GetRowsInfo(rows): rows.ColumnTypes() fails on a closed cursor
CallGetRowsInfo ==
    /\ output.fn = "none"
    /\ \E ok \in BOOLEAN :
        output' = IF ok THEN ColumnInfo("GetRowsInfo", ColumnInfoRows, "nil")
                  ELSE ColumnInfo("GetRowsInfo", << >>, "sql: Rows are closed")
    /\ UNCHANGED <<input, fileVars, scanVars, dbVars>>

\* GetTableInfo(table) on an open handle with valid names: the query, then GetRowsInfo
CallGetTableInfo ==
    /\ output.fn = "none"
    /\ \E ok \in BOOLEAN :
        output' = IF ok THEN ColumnInfo("GetTableInfo", ColumnInfoRows, "nil")
                  ELSE ColumnInfo("GetTableInfo", << >>, "driver error")
    /\ UNCHANGED <<input, fileVars, scanVars, dbVars>>

\* GetSQLTableInfo(table) on an open handle with valid names: the query, then
\* for rows.Next() { if err = rows.Scan(...); err != nil { break }; append }.
\* The loop ends after n rows: at the end of the rows, or because Scan failed (err
\* is set), or because Next returned false on a driver error (rows.Err() is not read).
CallGetSQLTableInfo ==
    /\ output.fn = "none"
    /\ \A i, j \in 1..Len(columns) : ColName(i) = ColName(j) => i = j
    /\ \E n \in 0..Len(columns), end \in {"query fails", "scan fails", "next fails", "end"} :
        /\ end \in {"scan fails", "next fails"} => n < Len(columns)
        /\ end = "end" => n = Len(columns)
        /\ end = "query fails" => n = 0
        /\ output' = ColumnInfo("GetSQLTableInfo", SubSeq(CatalogRows, 1, n),
                                CASE end = "query fails" -> "driver error"
                                  [] end = "scan fails" -> "scan error"
                                  [] OTHER -> "nil")
    /\ UNCHANGED <<input, fileVars, scanVars, dbVars>>

InfoInit == FileUnused /\ ScanIdle /\ DBUnused /\ CallUnused

InfoNext == CallGetRowsInfo \/ CallGetTableInfo \/ CallGetSQLTableInfo

InfoSpec == InfoInit /\ [][InfoNext]_vars

\* ---- the line Log writes for a message

\* Longest message of the model, and the bytes messages are made of: NUL, tab,
\* newline, carriage return, 0x1F, space, "A", backslash, "~", DEL, 0xE9, 0xFF.
MaxMessageLen == 2

MessageBytes == {0, 9, 10, 13, 31, 32, 65, 92, 126, 127, 233, 255}

Messages == UNION {[1..n -> MessageBytes] : n \in 0..MaxMessageLen}

\* strings.NewReplacer("\x5C", "\\\\", "\x09", "\\t", "\x0A", "\\n", "\x0D", "\\r") on one byte
ReplaceByte(b) ==
    CASE b = 92 -> <<92, 92>>
      [] b = 9 -> <<92, 116>>
      [] b = 10 -> <<92, 110>>
      [] b = 13 -> <<92, 114>>
      [] OTHER -> <<b>>

RECURSIVE Replace(_)
\* replacer.Replace(messageString): one pass, the replacements are not scanned again
Replace(msg) == IF msg = << >> THEN << >> ELSE ReplaceByte(Head(msg)) \o Replace(Tail(msg))

\* The digit %X prints for d in 0..15: "0".."9", "A".."F".
UpperHexDigit(d) == IF d < 10 THEN 48 + d ELSE 55 + d

\* A test that lets DEL through.
KeepsByte_ThroughDEL(charByte) == charByte >= 32 /\ charByte <= 127

\* if charByte >= 0x20 && charByte < 0x7F
KeepsByte(charByte) == charByte >= 32 /\ charByte < 127

\* string(charByte), or fmt.Sprintf("\\x%02X", charByte)
EscapeByte(charByte) ==
    IF KeepsByte(charByte) THEN <<charByte>>
    ELSE <<92, 120, UpperHexDigit(charByte \div 16), UpperHexDigit(charByte % 16)>>

RECURSIVE EscapeBytes(_)
\* the loop over the bytes of the replaced message
EscapeBytes(msg) == IF msg = << >> THEN << >> ELSE EscapeByte(Head(msg)) \o EscapeBytes(Tail(msg))

\* escapedMessageString of Log
EscapedMessage(messageString) == EscapeBytes(Replace(messageString))

\* The six fields before the message, each followed by a tab: "1" for utm, cymd and
\* hms, "/c", "m.go" and "7" for the caller's path, file name and line.
LinePrefix == <<49, 9, 49, 9, 49, 9, 47, 99, 9, 109, 46, 103, 111, 9, 55, 9>>

\* fmt.Sprintf("%d\t%d%02d%02d\t%02d%02d%02d\t%v\t%v\t%v\t%v\n", ...)
LogLine(messageString) == LinePrefix \o EscapedMessage(messageString) \o <<10>>

CallLogLine ==
    /\ output.fn = "none"
    /\ output' = [fn |-> "Log", message |-> EscapedMessage(input), line |-> LogLine(input)]
    /\ UNCHANGED <<input, fileVars, scanVars, dbVars>>

LineInit ==
    /\ FileUnused /\ ScanUnused /\ DBUnused
    /\ input \in Messages
    /\ output = [fn |-> "none"]

LineNext == CallLogLine

LineSpec == LineInit /\ [][LineNext]_vars

\* ---- conv: Base64 and Base64url

\* Longest data of the model, in bytes, and the bytes data is made of: 0x00, bytes
\* whose Base91 encodings have "$", a backquote and a double quote (64, 85, 90), and bytes
\* whose Base64 encodings have "+" and "/".
MaxDataLen == 3

DataBytes == {0, 64, 85, 90, 190, 239, 251, 255}

Datas == UNION {[1..n -> DataBytes] : n \in 0..MaxDataLen}

\* The alphabet of base64.StdEncoding; its padding character is "=".
Base64Alphabet ==
    <<"A", "B", "C", "D", "E", "F", "G", "H", "I", "J", "K", "L", "M", "N", "O", "P",
     "Q", "R", "S", "T", "U", "V", "W", "X", "Y", "Z", "a", "b", "c", "d", "e", "f",
     "g", "h", "i", "j", "k", "l", "m", "n", "o", "p", "q", "r", "s", "t", "u", "v",
     "w", "x", "y", "z", "0", "1", "2", "3", "4", "5", "6", "7", "8", "9", "+", "/">>

Base64Char(v) == Base64Alphabet[v + 1]

\* The value of a character of the alphabet, -1 for any other character.
Base64Value(c) ==
    IF \E v \in 0..63 : Base64Char(v) = c THEN CHOOSE v \in 0..63 : Base64Char(v) = c ELSE -1

RECURSIVE StdEncode(_)
\* base64.StdEncoding.EncodeToString: 3 bytes to 4 characters, the rest padded
StdEncode(data) ==
    IF Len(data) = 0 THEN << >>
    ELSE IF Len(data) = 1
    THEN <<Base64Char(data[1] \div 4), Base64Char((data[1] % 4) * 16), "=", "=">>
    ELSE IF Len(data) = 2
    THEN <<Base64Char(data[1] \div 4),
           Base64Char((data[1] % 4) * 16 + data[2] \div 16),
           Base64Char((data[2] % 16) * 4), "=">>
    ELSE <<Base64Char(data[1] \div 4),
           Base64Char((data[1] % 4) * 16 + data[2] \div 16),
           Base64Char((data[2] % 16) * 4 + data[3] \div 64),
           Base64Char(data[3] % 64)>> \o StdEncode(SubSeq(data, 4, Len(data)))

\* The bytes of one group of 4 characters; the last group may end in "=" or "==".
\* << -1 >> for a group that is not one.
DecodeQuad(q, isLast) ==
    LET v == [i \in 1..4 |-> Base64Value(q[i])]
    IN  IF v[1] >= 0 /\ v[2] >= 0 /\ v[3] >= 0 /\ v[4] >= 0
        THEN <<v[1] * 4 + v[2] \div 16, (v[2] % 16) * 16 + v[3] \div 4, (v[3] % 4) * 64 + v[4]>>
        ELSE IF isLast /\ v[1] >= 0 /\ v[2] >= 0 /\ v[3] >= 0 /\ q[4] = "="
        THEN <<v[1] * 4 + v[2] \div 16, (v[2] % 16) * 16 + v[3] \div 4>>
        ELSE IF isLast /\ v[1] >= 0 /\ v[2] >= 0 /\ q[3] = "=" /\ q[4] = "="
        THEN <<v[1] * 4 + v[2] \div 16>>
        ELSE << -1 >>

RECURSIVE StdDecodeQuads(_)
StdDecodeQuads(text) ==
    IF Len(text) = 0 THEN << >>
    ELSE DecodeQuad(SubSeq(text, 1, 4), Len(text) = 4) \o StdDecodeQuads(SubSeq(text, 5, Len(text)))

\* base64.StdEncoding.DecodeString: the bytes, or an error (CorruptInputError) for
\* a text that is not whole groups of the alphabet with the padding at its end
StdDecode(text) ==
    IF Len(text) % 4 # 0 THEN [data |-> << >>, err |-> "illegal base64 data"]
    ELSE IF \E i \in 1..Len(StdDecodeQuads(text)) : StdDecodeQuads(text)[i] = -1
    THEN [data |-> << >>, err |-> "illegal base64 data"]
    ELSE [data |-> StdDecodeQuads(text), err |-> "nil"]

Base64_encode(dataString) == IF dataString = << >> THEN dataString ELSE StdEncode(dataString)

\* dataBytes = []byte{} on an error
Base64_decode(dataString) ==
    IF dataString = << >> THEN [data |-> dataString, err |-> "nil"] ELSE StdDecode(dataString)

RECURSIVE ToURLChars(_)
\* strings.NewReplacer("+", "-", "/", "_", "=", "")
ToURLChars(text) ==
    IF text = << >> THEN << >>
    ELSE (CASE Head(text) = "+" -> <<"-">>
            [] Head(text) = "/" -> <<"_">>
            [] Head(text) = "=" -> << >>
            [] OTHER -> <<Head(text)>>) \o ToURLChars(Tail(text))

\* strings.NewReplacer("-", "+", "_", "/")
FromURLChars(text) ==
    [i \in 1..Len(text) |-> CASE text[i] = "-" -> "+" [] text[i] = "_" -> "/" [] OTHER -> text[i]]

\* A decoder that restores no padding.
Padding_None(length) == << >>

\* switch len(dataString) % 4 { case 2: "=="; case 3: "=" }
Padding(length) ==
    CASE length % 4 = 2 -> <<"=", "=">>
      [] length % 4 = 3 -> <<"=">>
      [] OTHER -> << >>

Base64url_encode(dataString) ==
    IF dataString = << >> THEN dataString ELSE ToURLChars(Base64_encode(dataString))

Base64url_decode(dataString) ==
    IF dataString = << >> THEN [data |-> dataString, err |-> "nil"]
    ELSE Base64_decode(FromURLChars(dataString) \o Padding(Len(dataString)))

\* ---- conv: Base91

\* The alphabet of base91.StdEncoding (basE91) as character codes: A-Z, a-z, 0-9,
\* then the other printable characters but "-" (45), "'" (39) and backslash (92),
\* the double quote (34) last.
Base91Alphabet ==
    <<65, 66, 67, 68, 69, 70, 71, 72, 73, 74, 75, 76, 77, 78, 79, 80,
      81, 82, 83, 84, 85, 86, 87, 88, 89, 90, 97, 98, 99, 100, 101, 102,
      103, 104, 105, 106, 107, 108, 109, 110, 111, 112, 113, 114, 115, 116, 117, 118,
      119, 120, 121, 122, 48, 49, 50, 51, 52, 53, 54, 55, 56, 57, 33, 35,
      36, 37, 38, 40, 41, 42, 43, 44, 46, 47, 58, 59, 60, 61, 62, 63,
      64, 91, 93, 94, 95, 96, 123, 124, 125, 126, 34>>

Base91Char(v) == Base91Alphabet[v + 1]

\* The value of a character of the alphabet, -1 for any other character.
Base91Value(c) ==
    IF \E v \in 0..90 : Base91Char(v) = c THEN CHOOSE v \in 0..90 : Base91Char(v) = c ELSE -1

\* 1 << n
Shl(n) == 2 ^ n

RECURSIVE Base91Encode(_, _, _)
\* base91.StdEncoding.EncodeToString with the bit queue b holding n bits: each byte
\* enters the queue above its n bits; once it holds more than 13 bits, 13 of them
\* (14 when the 13 are a value of 88 or less) leave as two characters; the rest of
\* the queue leaves at the end as one or two characters
Base91Encode(data, b, n) ==
    IF data = << >>
    THEN IF n = 0 THEN << >>
         ELSE <<Base91Char(b % 91)>> \o (IF n > 7 \/ b > 90 THEN <<Base91Char(b \div 91)>> ELSE << >>)
    ELSE LET q == b + Head(data) * Shl(n)
         IN  IF n + 8 <= 13 THEN Base91Encode(Tail(data), q, n + 8)
             ELSE IF q % 8192 > 88
             THEN <<Base91Char((q % 8192) % 91), Base91Char((q % 8192) \div 91)>>
                      \o Base91Encode(Tail(data), q \div 8192, n + 8 - 13)
             ELSE <<Base91Char((q % 16384) % 91), Base91Char((q % 16384) \div 91)>>
                      \o Base91Encode(Tail(data), q \div 16384, n + 8 - 14)

RECURSIVE Base91Decode(_, _, _, _)
\* base91.StdEncoding.DecodeString with v the value of the first character of a pair
\* (-1 when there is none), and the bit queue b of n bits: a pair puts 13 or 14 bits
\* into the queue, which then gives its whole bytes; a last single character gives
\* one byte. A character outside the alphabet makes the result end in -1.
Base91Decode(text, v, b, n) ==
    IF text = << >>
    THEN IF v >= 0 THEN <<(b + v * Shl(n)) % 256>> ELSE << >>
    ELSE IF Base91Value(Head(text)) = -1 THEN << -1 >>
    ELSE IF v < 0 THEN Base91Decode(Tail(text), Base91Value(Head(text)), b, n)
    ELSE LET w == v + Base91Value(Head(text)) * 91
             q == b + w * Shl(n)
             m == n + (IF w % 8192 > 88 THEN 13 ELSE 14)
         IN  IF m - 8 > 7
             THEN <<q % 256, (q \div 256) % 256>>
                      \o Base91Decode(Tail(text), -1, q \div 65536, m - 16)
             ELSE <<q % 256>> \o Base91Decode(Tail(text), -1, q \div 256, m - 8)

RECURSIVE Escape91(_)
\* strings.NewReplacer("\x22", "-q", "\x24", "-d", "\x60", "-g"), on character codes
Escape91(text) ==
    IF text = << >> THEN << >>
    ELSE (CASE Head(text) = 34 -> <<45, 113>>
            [] Head(text) = 36 -> <<45, 100>>
            [] Head(text) = 96 -> <<45, 103>>
            [] OTHER -> <<Head(text)>>) \o Escape91(Tail(text))

\* An unescaping that takes "-d" for the double quote and "-q" for "$".
UnescapedChar_Swapped(c) == CASE c = 103 -> 96 [] c = 100 -> 34 [] OTHER -> 36

\* what "-g", "-d", "-q" are replaced by: the backquote, "$", the double quote
UnescapedChar(c) == CASE c = 103 -> 96 [] c = 100 -> 36 [] OTHER -> 34

RECURSIVE Unescape91(_)
\* strings.NewReplacer("-g", "\x60", "-d", "\x24", "-q", "\x22"): from the left, a
\* pair that matches is replaced and the scan goes on after it
Unescape91(text) ==
    IF text = << >> THEN << >>
    ELSE IF Len(text) >= 2 /\ text[1] = 45 /\ text[2] \in {103, 100, 113}
    THEN <<UnescapedChar(text[2])>> \o Unescape91(SubSeq(text, 3, Len(text)))
    ELSE <<Head(text)>> \o Unescape91(Tail(text))

Base91_encode(dataString, escapeBool) ==
    IF dataString = << >> THEN dataString
    ELSE IF escapeBool THEN Escape91(Base91Encode(dataString, 0, 0))
    ELSE Base91Encode(dataString, 0, 0)

\* dataBytes = []byte{} on an error
Base91_decode(dataString, unescapeBool) ==
    IF dataString = << >> THEN [data |-> dataString, err |-> "nil"]
    ELSE LET text == IF unescapeBool THEN Unescape91(dataString) ELSE dataString
             bytes == Base91Decode(text, -1, 0, 0)
         IN  IF \E i \in 1..Len(bytes) : bytes[i] = -1
             THEN [data |-> << >>, err |-> "illegal base91 data"]
             ELSE [data |-> bytes, err |-> "nil"]

\* ---- conv: the conversions between Base64 and Base64url, and JSON

Base64_Base64url(dataString) ==
    IF dataString = << >> THEN dataString ELSE ToURLChars(dataString)

Base64url_Base64(dataString) ==
    IF dataString = << >> THEN dataString
    ELSE FromURLChars(dataString) \o Padding(Len(dataString))

LowerHexDigit(d) == IF d < 10 THEN 48 + d ELSE 87 + d

\* encoding/json's escape of one byte of a string below 0x80, with SetEscapeHTML(false):
\* a backslash before '"' and '\', \n \r \t, \u00xx for the other control bytes
JSONEscapeByte(b) ==
    CASE b = 34 \/ b = 92 -> <<92, b>>
      [] b = 10 -> <<92, 110>>
      [] b = 13 -> <<92, 114>>
      [] b = 9 -> <<92, 116>>
      [] b < 32 /\ b \notin {9, 10, 13} -> <<92, 117, 48, 48, LowerHexDigit(b \div 16), LowerHexDigit(b % 16)>>
      [] OTHER -> <<b>>

RECURSIVE JSONEscape(_)
JSONEscape(s) == IF s = << >> THEN << >> ELSE JSONEscapeByte(Head(s)) \o JSONEscape(Tail(s))

\* encoder.Encode of a string value writes the quoted string and a newline;
\* JSON_Marshal trims the newline. Encoding a string never fails.
JSON_Marshal(input_) ==
    [data |-> TrimRight(<<34>> \o JSONEscape(input_) \o <<34, 10>>, 10), err |-> "nil"]

\* jsonBytes = []byte{} on an error
JSON_encode(jsonInterface) ==
    IF JSON_Marshal(jsonInterface).err # "nil"
    THEN [data |-> << >>, err |-> JSON_Marshal(jsonInterface).err]
    ELSE JSON_Marshal(jsonInterface)

\* The JSON texts the model decodes: the blank text, the texts "", "A", null and true,
\* and two texts that are not JSON (a bare A and an unterminated string).
JSONTexts ==
    {<< >>, <<34, 34>>, <<34, 65, 34>>, <<110, 117, 108, 108>>, <<116, 114, 117, 101>>,
     <<65>>, <<34, 65>>}

\* json.Unmarshal into an interface{}, for the texts of JSONTexts: a text that ends
\* before its value is complete is "unexpected end of JSON input".
Unmarshal(text) ==
    IF text = << >> THEN [value |-> [kind |-> "nil"], err |-> "unexpected end of JSON input"]
    ELSE IF text = <<110, 117, 108, 108>> THEN [value |-> [kind |-> "nil"], err |-> "nil"]
    ELSE IF text = <<116, 114, 117, 101>> THEN [value |-> [kind |-> "bool", data |-> TRUE], err |-> "nil"]
    ELSE IF text[1] = 34
    THEN IF Len(text) >= 2 /\ text[Len(text)] = 34
                /\ \A i \in 2..(Len(text) - 1) : text[i] >= 32 /\ text[i] \notin {34, 92}
         THEN [value |-> [kind |-> "string", data |-> SubSeq(text, 2, Len(text) - 1)], err |-> "nil"]
         ELSE [value |-> [kind |-> "nil"], err |-> "unexpected end of JSON input"]
    ELSE [value |-> [kind |-> "nil"], err |-> "invalid character"]

\* jsonInterface = nil on an error
JSON_decode(jsonString) ==
    IF Unmarshal(jsonString).err # "nil"
    THEN [value |-> [kind |-> "nil"], err |-> Unmarshal(jsonString).err]
    ELSE Unmarshal(jsonString)


CallBase91 ==
    /\ output.fn = "none"
    /\ \E escapeBool \in BOOLEAN :
        output' = [fn |-> "Base91", escape |-> escapeBool,
                   plain |-> Base91_encode(input, FALSE),
                   encoded |-> Base91_encode(input, escapeBool),
                   decoded |-> Base91_decode(Base91_encode(input, escapeBool), escapeBool)]
    /\ UNCHANGED <<input, fileVars, scanVars, dbVars>>

CallBase64url ==
    /\ output.fn = "none"
    /\ output' = [fn |-> "Base64url", encoded |-> Base64url_encode(input),
                  decoded |-> Base64url_decode(Base64url_encode(input))]
    /\ UNCHANGED <<input, fileVars, scanVars, dbVars>>

ConvInit ==
    /\ FileUnused /\ ScanUnused /\ DBUnused
    /\ input \in Datas
    /\ output = [fn |-> "none"]

ConvNext == CallBase64url \/ CallBase91

ConvSpec == ConvInit /\ [][ConvNext]_vars

\* ---- every encode/decode function of conv, called once on one argument

\* What a conversion returned: a string and an error.
Returned(data, err) == [value |-> [kind |-> "string", data |-> data], err |-> err]

\* The arguments by kind: data bytes, Base64 and Base64url texts, Base91 texts (character
\* codes), strings handed to JSON_encode, and JSON texts. Each kind has the blank string.
CodecKinds == {"bytes", "base64", "base91", "string", "json"}

CodecArgs(kind) ==
    CASE kind = "bytes" -> Datas
      [] kind = "base64" -> {<< >>, <<"_", "w">>, <<"/", "w", "=", "=">>, <<"Q", "Q", "A">>, <<"*">>}
      [] kind = "base91" -> {<< >>, <<66, 45, 113, 45, 100, 70>>, <<66, 34, 36, 70>>, <<45>>}
      [] kind = "string" -> {<< >>, <<65>>, <<34, 92>>, <<10, 60>>, <<1>>}
      [] kind = "json" -> JSONTexts

CodecFunctions(kind) ==
    CASE kind = "bytes" -> {"Base64_encode", "Base64url_encode", "Base91_encode"}
      [] kind = "base64" -> {"Base64_decode", "Base64url_decode", "Base64_Base64url", "Base64url_Base64"}
      [] kind = "base91" -> {"Base91_decode"}
      [] kind = "string" -> {"JSON_encode"}
      [] kind = "json" -> {"JSON_decode"}

\* The result of function fn on argument arg; flag is escapeBool / unescapeBool.
Apply(fn, arg, flag) ==
    CASE fn = "Base64_encode" -> Returned(Base64_encode(arg), "nil")
      [] fn = "Base64url_encode" -> Returned(Base64url_encode(arg), "nil")
      [] fn = "Base91_encode" -> Returned(Base91_encode(arg, flag), "nil")
      [] fn = "Base64_decode" -> Returned(Base64_decode(arg).data, Base64_decode(arg).err)
      [] fn = "Base64url_decode" -> Returned(Base64url_decode(arg).data, Base64url_decode(arg).err)
      [] fn = "Base64_Base64url" -> Returned(Base64_Base64url(arg), "nil")
      [] fn = "Base64url_Base64" -> Returned(Base64url_Base64(arg), "nil")
      [] fn = "Base91_decode" -> Returned(Base91_decode(arg, flag).data, Base91_decode(arg, flag).err)
      [] fn = "JSON_encode" -> Returned(JSON_encode(arg).data, JSON_encode(arg).err)
      [] fn = "JSON_decode" -> JSON_decode(arg)

CallCodec ==
    /\ output.fn = "none"
    /\ \E fn \in CodecFunctions(input.kind), flag \in BOOLEAN :
        /\ flag \/ fn \in {"Base91_encode", "Base91_decode"}
        /\ output' = [fn |-> fn, flag |-> flag, result |-> Apply(fn, input.data, flag)]
    /\ UNCHANGED <<input, fileVars, scanVars, dbVars>>

CodecInit ==
    /\ FileUnused /\ ScanUnused /\ DBUnused
    /\ \E kind \in CodecKinds : input \in {[kind |-> kind, data |-> d] : d \in CodecArgs(kind)}
    /\ output = [fn |-> "none"]

CodecNext == CallCodec

CodecSpec == CodecInit /\ [][CodecNext]_vars


\* ---- the name checks on their own

\* Longest string the name checks are given, and the characters it is made of:
\* letters, underscore, a digit, and characters no identifier has.
MaxCheckLen == 3

CheckAlphabet == {"a", "Z", "_", "1", "-", " ", "'", "\n"}

\* "_abc123", "1abc", "ab-c"
CheckExamples ==
    {<<"_", "a", "b", "c", "1", "2", "3">>, <<"1", "a", "b", "c">>, <<"a", "b", "-", "c">>}

CheckInputs == UNION {[1..n -> CheckAlphabet] : n \in 0..MaxCheckLen} \cup CheckExamples

CallCheckNames ==
    /\ output.fn = "none"
    /\ output' = [fn |-> "CheckTableName", table |-> CheckTableName(input),
                  database |-> CheckDatabaseName(input)]
    /\ UNCHANGED <<input, fileVars, scanVars, dbVars>>

NameInit ==
    /\ FileUnused /\ ScanUnused /\ DBUnused
    /\ input \in CheckInputs
    /\ output = [fn |-> "none"]

NameNext == CallCheckNames

NameSpec == NameInit /\ [][NameNext]_vars

\* ScanRows of either package on a cursor of any columns and rows.
ScanInit == FileUnused /\ ScanIdle /\ DBUnused /\ CallUnused

ScanNext ==
    \/ ScanRows_begin
    \/ ScanRows_row_sqlite
    \/ ScanRows_row_mysql
    \/ ScanRows_nextFails
    \/ ScanRows_end

ScanSpec == ScanInit /\ [][ScanNext]_vars

\* ScanRows of mysqldb alone.
MySQLScanInit == ScanInit /\ variant = "mysql"

MySQLScanNext ==
    \/ ScanRows_begin
    \/ ScanRows_row_mysql
    \/ ScanRows_nextFails
    \/ ScanRows_end

MySQLScanSpec == MySQLScanInit /\ [][MySQLScanNext]_vars



\* The statements of lock, unlock and the function bodies, for goroutine g.
Run(g) ==
    \/ lock_load(g) \/ lock_store(g) \/ lock_test(g) \/ lock_Lock(g)
    \/ unlock_load(g) \/ unlock_store(g) \/ unlock_test(g) \/ unlock_Unlock(g)
    \/ return(g)
    \/ FileAppend_open(g) \/ FileAppend_write(g) \/ close(g)

RunLog(g) == Log_exists(g) \/ Log_call(g) \/ Log_ret(g)

RunOther(g) == FileSave_create(g) \/ FileSave_write(g) \/ FileRemove_remove(g)

RunExternal(g) ==
    \/ Lock_load(g) \/ Lock_store(g) \/ Lock_Lock(g)
    \/ Unlock_load(g) \/ Unlock_store(g) \/ Unlock_Unlock(g)

\* Any number of goroutines calling FileSave, FileAppend, FileRemove and Log.
Init == FileInit /\ faults = TRUE /\ ScanUnused /\ DBUnused /\ CallUnused

Next ==
    \E g \in Procs :
        \/ calls[g] < MaxCalls /\ CallFileSave(g)
        \/ calls[g] < MaxCalls /\ CallFileAppend(g)
        \/ calls[g] < MaxCalls /\ CallFileRemove(g)
        \/ calls[g] < MaxCalls /\ CallLog(g)
        \/ Run(g) \/ RunLog(g) \/ RunOther(g)

Spec == Init /\ [][Next]_vars

\* Goroutines that only call Log, starting with no log file, on a file system
\* that does not fail.
LogInit == FileInit /\ faults = FALSE /\ ScanUnused /\ DBUnused /\ CallUnused

LogNext ==
    \E g \in Procs :
        \/ calls[g] < MaxCalls /\ CallLog(g)
        \/ Run(g) \/ RunLog(g)

LogSpec == LogInit /\ [][LogNext]_vars

\* One call path (goroutine 1 alone) that calls the file functions and the
\* external Lock and Unlock in any order.
PathInit == FileInit /\ faults = TRUE /\ ScanUnused /\ DBUnused /\ CallUnused

PathNext ==
    \/ calls[1] < MaxPathCalls /\ CallFileSave(1)
    \/ calls[1] < MaxPathCalls /\ CallFileAppend(1)
    \/ calls[1] < MaxPathCalls /\ CallFileRemove(1)
    \/ calls[1] < MaxPathCalls /\ CallLog(1)
    \/ calls[1] < MaxPathCalls /\ CallLock(1)
    \/ calls[1] < MaxPathCalls /\ CallUnlock(1)
    \/ Run(1) \/ RunLog(1) \/ RunOther(1) \/ RunExternal(1)

PathSpec == PathInit /\ [][PathNext]_vars

\* The scheduler runs every goroutine that can take a step, and a goroutine
\* blocked in SyncMutex.Lock() gets the mutex if it is free again and again
\* (sync.Mutex hands a starving waiter the mutex).  Callers need not call.
Fairness ==
    \A g \in Procs :
        /\ WF_vars(Run(g) \/ RunLog(g) \/ RunOther(g))
        /\ SF_vars(lock_Lock(g))

FairSpec == Init /\ [][Next]_vars /\ Fairness

\* ------------------------------------------------------------------ claims

\* Goroutine g is between its outermost internal lock() and the matching unlock().
InCriticalSection(g) ==
    /\ stack[g] # << >>
    /\ pc[g] # "fatal"
    /\ \/ Len(stack[g]) > 1
       \/ pc[g] \notin {"lock_load", "lock_store", "lock_test", "lock_Lock",
                        "unlock_load", "unlock_store", "unlock_test", "unlock_Unlock",
                        "return"}

\* C1: at most one goroutine is inside the critical section of FileSave,
\* FileAppend, FileRemove or Log (between its lock() and the matching unlock()).
C1_MutualExclusion ==
    \A g, h \in Procs : (g # h) => ~(InCriticalSection(g) /\ InCriticalSection(h))

\* Nothing more will happen: every goroutine has made its calls and returned, or is
\* blocked in SyncMutex.Lock() on a locked mutex, or the process has ended.
Quiescent ==
    \A g \in Procs :
        \/ pc[g] = "fatal"
        \/ pc[g] = "idle" /\ calls[g] = MaxCalls
        \/ pc[g] = "lock_Lock" /\ SyncMutex # 0

Occurrences(seq, x) == Cardinality({i \in 1..Len(seq) : seq[i] = x})

\* C2: once the goroutines' Log calls are over, the log file holds exactly one
\* whole entry line for every call (n lines for n callers), and nothing else but
\* header lines.
C2_OneLinePerCall ==
    Quiescent =>
        /\ \A g \in Procs : \A k \in 1..MaxCalls :
               Occurrences(files[LogFile].content, EntryLine(g, k)) = 1
        /\ \A i \in 1..Len(files[LogFile].content) :
               \/ files[LogFile].content[i] = HeaderLine
               \/ \E g \in Procs : \E k \in 1..MaxCalls :
                      files[LogFile].content[i] = EntryLine(g, k)

\* C3: starting with no log file, whenever the log file has content its first line
\* is the header and the header occurs exactly once.
C3_HeaderOnce ==
    (files[LogFile].content # << >>) =>
        /\ files[LogFile].content[1] = HeaderLine
        /\ Occurrences(files[LogFile].content, HeaderLine) = 1

\* C4: under fair scheduling no call waits forever in SyncMutex.Lock(): a goroutine
\* that reaches the mutex acquisition of lock() eventually gets past it.
C4_NoCallWaitsForever ==
    \A g \in Procs : (pc[g] = "lock_Lock") ~> (pc[g] # "lock_Lock")

\* C5: in a single call path, every return from Lock() has locked the mutex and
\* every return from Unlock() has unlocked it, whatever LockValue is; and a
\* Lock() called while the path holds the mutex never returns.
C5_ExternalAlwaysLocks ==
    [][/\ (pc[1] = "Lock_Lock" /\ pc'[1] = "idle") => (SyncMutex = 0 /\ SyncMutex' = 1)
       /\ (pc[1] = "Unlock_Unlock" /\ pc'[1] = "idle") => (SyncMutex = 1 /\ SyncMutex' = 0)
       /\ (pc[1] = "Lock_Lock" /\ SyncMutex = 1) => (pc'[1] = "Lock_Lock")]_vars

\* The call path holds the mutex (taken by its first Lock()) and waits in a second.
C5_Witness == pc[1] = "Lock_Lock" /\ SyncMutex = 1 /\ LockValue = 2

\* C6: when a single call chain that started with LockValue = 0 returns, the mutex
\* was locked exactly once, by the outermost lock() (depth 1), and unlocked
\* exactly once, by the outermost unlock(); nested pairs only moved the counter.
C6_OutermostOnly ==
    (pc[1] = "return" /\ Len(stack[1]) = 1 /\ hist[1].entry = 0) =>
        (hist[1].mlock = <<1>> /\ hist[1].munlock = <<1>> /\ LockValue = 0)

\* Log returns after its nested FileAppend locked and unlocked inside it.
C6_Witness ==
    /\ pc[1] = "return" /\ Len(stack[1]) = 1 /\ Top(1).fn = "Log" /\ hist[1].entry = 0
    /\ files[LogFile].content # << >>

\* The kinds a record value may have: integer, float, boolean, bytes, string, null.
RecordKinds == {"int", "float64", "bool", "bytes", "string", "nil"}

\* C8: ScanRows never aborts the process, and every value of every record is an
\* integer, a float, a boolean, a byte sequence, a string or null.
C8_EveryCellTyped ==
    /\ scanpc # "panic"
    /\ \A r \in 1..Len(records) : \A n \in DOMAIN records[r] : records[r][n].k \in RecordKinds

\* C9: when the driver fails at a row, ScanRows returns the records of the rows
\* before it together with an error.
C9_StopsWithError ==
    (scanpc = "done" /\ failure.kind # "none") =>
        (scanErr # "nil" /\ Len(records) = failure.row - 1)

\* The operations C7 names, those that work through the handle.
HandleOps ==
    {"Exec", "Query", "QueryRow", "QueryRecords", "GetTableInfo", "GetSQLTableInfo",
     "TableExists"}

\* C7: in both variants, every operation invoked while the handle is nil (Exec, Query,
\* QueryRow, QueryRecords, GetTableInfo, GetSQLTableInfo, TableExists) reports
\* "not connected" and never dereferences the nil handle.
C7_NilHandleReportsNotConnected ==
    (last.op \in HandleOps /\ last.nilDB) => last.err = "not connected"

\* C10 as stated: a client-server Connect whose Database (the caller's, or the one
\* taken from MYSQL_DATABASE) does not pass CheckDatabaseName fails with the invalid
\* name error, leaves conn.DB as it was and issues no statement.
C10_InvalidNameRejected ==
    [][(variant = "mysql" /\ connects' # connects /\ ~CheckDatabaseName(conn'.Database))
        => (/\ last'.err = "invalid database name"
            /\ conn'.DB = conn.DB
            /\ last'.stmts = << >>)]_vars

\* C10 amended: the same for every non-empty Database that does not pass
\* CheckDatabaseName; with an empty Database Connect validates nothing and issues
\* neither CREATE DATABASE nor USE.
C10_NonEmptyInvalidNameRejected ==
    [][(variant = "mysql" /\ connects' # connects /\ ~CheckDatabaseName(conn'.Database))
        => IF conn'.Database # << >>
           THEN /\ last'.err = "invalid database name"
                /\ conn'.DB = conn.DB
                /\ last'.stmts = << >>
           ELSE last'.stmts = << >>]_vars

\* A second Connect took "-" from MYSQL_DATABASE, was rejected, and the handle of the
\* first Connect is still in conn.DB.
C10_Witness ==
    /\ variant = "mysql"
    /\ last.op = "Connect"
    /\ last.err = "invalid database name"
    /\ conn.Database = <<"-">>
    /\ conn.DB = 1
    /\ connects = 2


\* The kind the coercion table gives a declared type, whatever its letter case.
KindOfDeclared(t) ==
    CASE t \in {"int", "INT"} -> "int"
      [] t \in {"DECIMAL", "decimal"} -> "float64"
      [] t \in {"BLOB", "blob"} -> "bytes"
      [] t \in {"BOOL", "bool"} -> "bool"
      [] OTHER -> "string"

\* The column that gives the record its entry of name n: the last of that name.
ColumnOf(n) ==
    CHOOSE i \in 1..Len(columns) :
        ColName(i) = n /\ \A j \in 1..Len(columns) : ColName(j) = n => j <= i

\* C11: in mysqldb's ScanRows every value of a record has the kind the table gives
\* the declared type of its column, compared without regard to letter case: integer
\* types an integer, decimal types a float, blob types bytes, boolean types a
\* boolean, every other type a string.
C11_KindByDeclaredType ==
    variant = "mysql" =>
        \A r \in 1..Len(records) : \A n \in DOMAIN records[r] :
            records[r][n].k = KindOfDeclared(ColType(ColumnOf(n)))

\* A record of a cursor with an "int" column a and a VARCHAR column b.
C11_Witness ==
    /\ variant = "mysql"
    /\ columns = <<<<"a", "int">>, <<"b", "VARCHAR">>>>
    /\ Len(records) = 1
    /\ records[1]["a"].k = "int"
    /\ records[1]["b"].k = "string"

\* A non-empty string of letters, digits and underscores that starts with a letter
\* or an underscore.
IsIdentifier(s) ==
    /\ s # << >>
    /\ s[1] \in Letters \cup {"_"}
    /\ \A i \in 1..Len(s) : s[i] \in Letters \cup Digits \cup {"_"}

\* C12: CheckTableName and CheckDatabaseName are both true exactly for the non-empty
\* strings whose first character is a letter or underscore and whose characters are
\* all letters, digits or underscores.
C12_ValidIffIdentifier ==
    output.fn = "CheckTableName" =>
        /\ output.table = IsIdentifier(input)
        /\ output.database = IsIdentifier(input)
        /\ input = <<"_", "a", "b", "c", "1", "2", "3">> => output.table
        /\ input \in {<< >>, <<"1", "a", "b", "c">>, <<"a", "b", "-", "c">>} => ~output.table

\* "a\n" was checked and refused: the end anchor does not match before a newline.
C12_Witness ==
    /\ output.fn = "CheckTableName"
    /\ input = <<"a", "\n">>
    /\ ~output.table
    /\ ~output.database

\* The directory a file-backed Connect resolves for a named database: FilePath
\* without trailing slashes, or the directory of the package's source, "/p".
ResolvedDir(c) == IF c.FilePath = << >> THEN <<"/", "p">> ELSE TrimRight(c.FilePath, "/")

\* s is base.ext: the part after its last dot and the part before it are not empty,
\* and s has no slash.
IsBaseDotExt(s, base, ext) ==
    /\ s = base \o <<".">> \o ext
    /\ base # << >> /\ ext # << >>
    /\ \A i \in 1..Len(ext) : ext[i] # "."
    /\ \A i \in 1..Len(s) : s[i] # "/"

\* C13: a file-backed Connect with Database base.ext and an empty DatabaseExt leaves
\* Database = base and DatabaseExt = ext, and FilePath names base.ext in the
\* resolved directory.
C13_SplitsNameAndExtension ==
    [][(variant = "sqlite" /\ connects' # connects /\ conn.DatabaseExt = << >>) =>
        \A k \in 1..Len(conn.Database) :
            LET base == SubSeq(conn.Database, 1, k - 1)
                ext == SubSeq(conn.Database, k + 1, Len(conn.Database))
            IN  IsBaseDotExt(conn.Database, base, ext) =>
                    /\ conn'.Database = base
                    /\ conn'.DatabaseExt = ext
                    /\ conn'.FilePath = ResolvedDir(conn) \o <<"/">> \o conn.Database]_vars

\* Connect was given "a.b.s" and FilePath "/d": Database "a.b", DatabaseExt "s",
\* FilePath "/d/a.b.s", and a handle.
C13_Witness ==
    /\ variant = "sqlite"
    /\ last.op = "Connect"
    /\ connects = 1
    /\ conn.Database = <<"a", ".", "b">>
    /\ conn.DatabaseExt = <<"s">>
    /\ conn.FilePath = <<"/", "d", "/", "a", ".", "b", ".", "s">>
    /\ conn.DB = 1

\* C14: a file-backed Connect whose resolved file does not exist fails with the
\* not-found error and leaves conn.DB and the open handles as they were when
\* AutoCreate is false, and never fails so when AutoCreate is true.
C14_MissingFileNeedsAutoCreate ==
    [][(variant = "sqlite" /\ connects' # connects /\ conn'.FilePath \notin dbFiles) =>
        IF conn.AutoCreate
        THEN last'.err # "database file does not exist"
        ELSE /\ last'.err = "database file does not exist"
             /\ conn'.DB = conn.DB
             /\ openDBs' = openDBs]_vars

\* A second Connect resolved a file that does not exist and was refused; conn.DB is
\* still the handle of the first.
C14_Witness ==
    /\ variant = "sqlite"
    /\ last.op = "Connect"
    /\ last.err = "database file does not exist"
    /\ connects = 2
    /\ conn.DB = 1
    /\ openDBs = {1}

\* C15: a file-backed Connect with neither Database nor FilePath fails with "caller
\* location unavailable" and leaves conn.DB alone when runtime.Caller cannot name
\* the caller, and otherwise resolves the caller's path with ".db" for its extension.
C15_CallerLocationNeeded ==
    [][(/\ variant = "sqlite" /\ connects' # connects
        /\ conn.Database = << >> /\ conn.FilePath = << >>) =>
        IF last'.caller = << >>
        THEN last'.err = "caller location unavailable" /\ conn'.DB = conn.DB
        ELSE conn'.FilePath =
                SubSeq(last'.caller, 1, LastIndex(last'.caller, ".") - 1) \o <<".", "d", "b">>]_vars

\* C16: in both variants Close leaves conn.DB nil whether or not the driver's Close
\* failed, and a Close of a configuration whose handle is nil returns no error,
\* closes nothing and changes nothing of the configuration.
C16_CloseClearsAndIsIdempotent ==
    [][last'.op = "Close" =>
        /\ conn'.DB = 0
        /\ conn.DB = 0 => (last'.err = "nil" /\ openDBs' = openDBs /\ conn' = conn)]_vars

\* An auto-creating file-backed configuration was connected once and closed twice.
C16_Witness ==
    /\ variant = "sqlite"
    /\ conn.AutoCreate
    /\ connects = 1
    /\ last.op = "Close"
    /\ last.nilDB
    /\ last.err = "nil"
    /\ conn.DB = 0
    /\ openDBs = {}

\* C17: every column information returned without an error for a table or cursor of
\* k columns has k rows with the sequence numbers 1..k in order, the names in order
\* with every duplicate kept, and a map with one entry per distinct name holding the
\* type of the last column of that name.
C17_ColumnInfoComplete ==
    (output.fn \in {"GetRowsInfo", "GetTableInfo", "GetSQLTableInfo"} /\ output.err = "nil") =>
        /\ Len(output.rows) = Len(columns)
        /\ \A i \in 1..Len(output.rows) :
            output.rows[i].Sequence = i /\ output.rows[i].Name = ColName(i)
        /\ DOMAIN output.map = {ColName(i) : i \in 1..Len(columns)}
        /\ \A n \in DOMAIN output.map : output.map[n] = ColType(ColumnOf(n))

\* The escape C18 states for one byte of the message.
StatedEscape(b) ==
    CASE b = 92 -> <<92, 92>>
      [] b = 9 -> <<92, 116>>
      [] b = 10 -> <<92, 110>>
      [] b = 13 -> <<92, 114>>
      [] b \in 32..126 -> <<b>>
      [] OTHER -> <<92, 120>> \o <<<<48, 49, 50, 51, 52, 53, 54, 55, 56, 57, 65, 66, 67, 68, 69, 70>>[(b \div 16) + 1],
                                  <<48, 49, 50, 51, 52, 53, 54, 55, 56, 57, 65, 66, 67, 68, 69, 70>>[(b % 16) + 1]>>

RECURSIVE StatedEscapes(_)
StatedEscapes(msg) == IF msg = << >> THEN << >> ELSE StatedEscape(Head(msg)) \o StatedEscapes(Tail(msg))

\* C18: for every message the line Log writes ends with its only newline, has no tab
\* but the six field separators, and its message field is the message with
\* backslash, tab, newline and carriage return as \\, \t, \n, \r and every other
\* byte outside 0x20-0x7E as \xHH in upper-case hex: printable ASCII only.
C18_MessageEscaped ==
    output.fn = "Log" =>
        /\ output.message = StatedEscapes(input)
        /\ \A i \in 1..Len(output.message) : output.message[i] \in 32..126
        /\ output.line[Len(output.line)] = 10
        /\ Cardinality({i \in 1..Len(output.line) : output.line[i] = 10}) = 1
        /\ Cardinality({i \in 1..Len(output.line) : output.line[i] = 9}) = 6

\* The message DEL, newline was written as \x7F\n.
C18_Witness ==
    /\ output.fn = "Log"
    /\ input = <<127, 10>>
    /\ output.message = <<92, 120, 55, 70, 92, 110>>

\* C19: for every non-empty string, Base64url_decode of its Base64url_encode is the
\* string, without an error, whatever its length modulo 3.
C19_Base64urlRoundTrip ==
    (output.fn = "Base64url" /\ input # << >>) =>
        /\ output.decoded.data = input
        /\ output.decoded.err = "nil"

\* The byte 0xFF was encoded as "_w" (from "/w==") and decoded again.
C19_Witness ==
    /\ output.fn = "Base64url"
    /\ input = <<255>>
    /\ output.encoded = <<"_", "w">>
    /\ output.decoded.data = <<255>>

\* C20: for every non-empty string and both values of the flag, Base91_decode of
\* its Base91_encode is the string, without an error; with the flag set the encoding
\* has none of the characters ", $ and backquote, and unescaping it gives the encoding
\* without the flag.
C20_Base91RoundTrip ==
    (output.fn = "Base91" /\ input # << >>) =>
        /\ output.decoded.data = input
        /\ output.decoded.err = "nil"
        /\ output.escape =>
            /\ \A i \in 1..Len(output.encoded) : output.encoded[i] \notin {34, 36, 96}
            /\ Unescape91(output.encoded) = output.plain

\* The bytes 255, 255, 64 were encoded with the flag set: the encoding without it is
\* B"$F, the one with it B-q-dF, and decoding gave the bytes back.
C20_Witness ==
    /\ output.fn = "Base91"
    /\ output.escape
    /\ input = <<255, 255, 64>>
    /\ output.plain = <<66, 34, 36, 70>>
    /\ output.encoded = <<66, 45, 113, 45, 100, 70>>
    /\ output.decoded.data = input


\* C21: for the blank string, every encode/decode function of the encoding utilities
\* (Base64_encode, Base64_decode, Base64url_encode, Base64url_decode, Base64_Base64url,
\* Base64url_Base64, Base91_encode, Base91_decode, JSON_encode, JSON_decode) returns
\* its input unchanged and reports no error.
C21_BlankIsIdentity ==
    (output.fn # "none" /\ input.data = << >>) =>
        /\ output.result.value.kind = "string"
        /\ output.result.value.data = input.data
        /\ output.result.err = "nil"


\* The stages a client-server Connect that fails nowhere runs, by the claim as stated
\* (USE always) and by the code (CREATE and USE only for a non-empty Database).
StatedStages(c) ==
    IF c.AutoCreate THEN <<"open", "ping", "create", "use">> ELSE <<"open", "ping", "use">>

CodeStages(c) == IF c.Database = << >> THEN <<"open", "ping">> ELSE StatedStages(c)

\* A Connect step of the client-server variant that got past the name check ran the
\* stages of all, in their order, up to and including the first that failed; it
\* returned that stage's error; and the handle it opened is in conn.DB, open.
RanStagesOf(all) ==
    (variant = "mysql" /\ connects' # connects /\ last'.err # "invalid database name") =>
        /\ \E n \in 1..Len(all) :
            /\ last'.stages = SubSeq(all, 1, n)
            /\ last'.err = IF n = Len(all) /\ last'.err = "nil" THEN "nil" ELSE all[n] \o " error"
        /\ last'.err # "open error" => (conn'.DB = connects' /\ conn'.DB \in openDBs')

\* C22 as stated: the client-server Connect runs open handle, ping, CREATE DATABASE IF
\* NOT EXISTS (only when AutoCreate is set) and USE in this order; the first stage that
\* fails ends Connect with its error, no later stage runs, and the opened handle stays
\* in conn.DB.
C22_StagesInOrder == [][RanStagesOf(StatedStages(conn'))]_vars

\* C22 amended: the same, where CREATE DATABASE IF NOT EXISTS and USE are stages only
\* of a Connect with a non-empty Database; with an empty Database a Connect whose open
\* and ping succeed returns nil without a USE.
C22_StagesInOrderForNamedDatabase == [][RanStagesOf(CodeStages(conn'))]_vars

\* CREATE DATABASE failed: Connect returned its error, ran no USE, and left the handle.
C22_Witness ==
    /\ variant = "mysql"
    /\ last.op = "Connect"
    /\ last.err = "create error"
    /\ last.stages = <<"open", "ping", "create">>
    /\ Len(last.stmts) = 1
    /\ conn.DB # 0
    /\ conn.DB \in openDBs


\* C23: the client-server Connect overlays host, user, password and the create flag
\* from the environment if and only if it is called with checkENV = true; when
\* checkENV is absent or false, Host, User, Password, AllowNativePasswords, Database and
\* AutoCreate keep the caller's values.
C23_OverlayIffCheckENV ==
    [][(variant = "mysql" /\ connects' # connects) =>
        IF last'.checkENV = "true"
        THEN /\ conn'.Host = env.MYSQL_HOST
             /\ conn'.User = env.MYSQL_USER
             /\ conn'.Password = env.MYSQL_PWD
             /\ conn'.AutoCreate = (env.MYSQL_AUTO_CREATE = "true")
        ELSE \A f \in {"Host", "User", "Password", "AllowNativePasswords", "Database",
                       "AutoCreate"} : conn'[f] = conn[f]]_vars

\* What holds of the code: everything C23 states except the overlay of the create flag.
C23_OverlayWithoutCreateFlag ==
    [][(variant = "mysql" /\ connects' # connects) =>
        IF last'.checkENV = "true"
        THEN /\ conn'.Host = env.MYSQL_HOST
             /\ conn'.User = env.MYSQL_USER
             /\ conn'.Password = env.MYSQL_PWD
             /\ conn'.AutoCreate = conn.AutoCreate
        ELSE \A f \in {"Host", "User", "Password", "AllowNativePasswords", "Database",
                       "AutoCreate"} : conn'[f] = conn[f]]_vars


\* C24: in both variants a Connect on a configuration that holds an open handle never
\* closes that handle, and a Connect that succeeds puts a new handle in conn.DB; so
\* after k Connects that each opened a handle (handles are numbered by the Connects, so
\* all of 1..k are open) and then one Close, k - 1 handles remain open, none of them
\* reachable from the configuration.
C24_ConnectLeaksPreviousHandle ==
    /\ [][connects' # connects =>
            /\ openDBs \subseteq openDBs'
            /\ last'.err = "nil" =>
                (conn'.DB # 0 /\ conn'.DB \notin openDBs /\ conn'.DB \in openDBs')]_vars
    /\ [][(last'.op = "Close" /\ conn.DB # 0 /\ openDBs = 1..connects) =>
            /\ Cardinality(openDBs') = connects - 1
            /\ conn'.DB = 0]_vars

\* Two Connects succeeded in the file-backed variant, then a Close: the first handle is
\* still open and the configuration holds none.
C24_Witness ==
    /\ variant = "sqlite"
    /\ last.op = "Close"
    /\ connects = 2
    /\ openDBs = {1}
    /\ conn.DB = 0


\* The suffix of a name: what follows its last ".", nothing when it has no ".".
SuffixOf(name) ==
    IF LastIndex(name, ".") = 0 THEN << >> ELSE SubSeq(name, LastIndex(name, ".") + 1, Len(name))

\* C25: in the file-backed Connect with a non-empty Database name, the extension is the
\* explicit DatabaseExt if non-empty, else the suffix of the name, else "db"; and the
\* base filename is the name without its suffix only when that suffix was the one
\* treated as the extension: otherwise the name keeps its suffix.
C25_BaseKeepsUnusedSuffix ==
    [][(variant = "sqlite" /\ connects' # connects /\ conn.Database # << >>) =>
        LET name == conn.Database
            ext == IF conn.DatabaseExt # << >> THEN conn.DatabaseExt
                   ELSE IF SuffixOf(name) # << >> THEN SuffixOf(name)
                   ELSE <<"d", "b">>
            base == IF SuffixOf(name) # << >> /\ SuffixOf(name) = ext
                    THEN SubSeq(name, 1, Len(name) - Len(SuffixOf(name)) - 1)
                    ELSE name
        IN  conn'.DatabaseExt = ext /\ conn'.Database = base]_vars


\* Goroutine g is inside lock() or unlock(), between two of their statements.
InLockCode(g) ==
    pc[g] \in {"lock_load", "lock_store", "lock_test", "lock_Lock",
               "unlock_load", "unlock_store", "unlock_test", "unlock_Unlock"}

\* C26: under any interleaving of goroutines that each perform matched lock()/unlock()
\* pairs (as FileSave, FileAppend, FileRemove and Log do), LockValue is never negative,
\* the mutex is held exactly when LockValue > 0 (whenever no goroutine is in the middle
\* of lock() or unlock()), and the mutex is never unlocked while it is not locked
\* (a fatal runtime error).
C26_CounterAndMutexConsistent ==
    /\ LockValue >= 0
    /\ (\A g \in Procs : ~InLockCode(g)) => (SyncMutex # 0 <=> LockValue > 0)
    /\ ~crashed


\* C27: the normalization of the file-backed Connect is a fixed point on its own
\* output: once a Connect has set FilePath, Database and DatabaseExt, another Connect
\* on the same configuration resolves to the same FilePath, Database and DatabaseExt.
C27_NormalizationFixedPoint ==
    [][(variant = "sqlite" /\ connects >= 1 /\ connects' # connects) =>
        /\ conn'.FilePath = conn.FilePath
        /\ conn'.Database = conn.Database
        /\ conn'.DatabaseExt = conn.DatabaseExt]_vars


\* C28 as stated: in the client-server ScanRows every cell is coerced according to the
\* declared type of its own column (the column at the same position in the cursor),
\* also when two columns have the same name and different declared types; the record
\* holds, under that name, the value of the last such column coerced by its type.
C28_CellByOwnColumnType ==
    (variant = "mysql" /\ coerced # << >>) =>
        /\ \A i \in 1..Len(columns) : coerced[i].k = KindOfDeclared(ColType(i))
        /\ \A n \in DOMAIN records[Len(records)] :
            records[Len(records)][n] = coerced[ColumnOf(n)]

\* C28 amended: every cell is coerced according to the declared type that the column
\* information maps its column's name to, which is the declared type of the last
\* column of that name: a column whose name comes again later in the cursor is coerced
\* by the later column's type. The record holds, under a name, the value of the last
\* column of that name, coerced by that column's own type.
C28_CellByTypeOfLastColumnOfName ==
    (variant = "mysql" /\ coerced # << >>) =>
        /\ \A i \in 1..Len(columns) :
            coerced[i].k = KindOfDeclared(ColType(ColumnOf(ColName(i))))
        /\ \A n \in DOMAIN records[Len(records)] :
            /\ records[Len(records)][n] = coerced[ColumnOf(n)]
            /\ records[Len(records)][n].k = KindOfDeclared(ColType(ColumnOf(n)))

\* A row of a cursor with the columns a "int" and a VARCHAR: both cells are strings,
\* and so is the record's a.
C28_Witness ==
    /\ variant = "mysql"
    /\ columns = <<<<"a", "int">>, <<"a", "VARCHAR">>>>
    /\ Len(records) = 1
    /\ coerced[1].k = "string"
    /\ coerced[2].k = "string"
    /\ records[1]["a"].k = "string"


\* C29: every file handle that FileSave or FileAppend opens is closed before the call
\* returns, for every data value including the empty string and whether or not the
\* write fails: when no call is running, the package holds no open file handle.
C29_NoHandleLeftOpen == (\A g \in Procs : pc[g] = "idle") => openHandles = 0


\* The statements that the client-server variant builds by interpolating names.
InterpolatedSQL ==
    {"CREATE DATABASE IF NOT EXISTS", "USE", "SELECT COUNT(*) FROM INFORMATION_SCHEMA.TABLES",
     "SELECT * FROM LIMIT 1"}

\* C30: in the client-server variant no statement built by interpolating a schema or
\* table name (CREATE DATABASE and USE in Connect, the INFORMATION_SCHEMA filter in
\* TableExists, SELECT * FROM schema.table in GetTableInfo) is issued unless every
\* interpolated name is non-empty and passes CheckDatabaseName / CheckTableName at the
\* time of the call, after any Connect calls and direct changes of the Database field.
C30_InterpolatedNamesChecked ==
    [][(variant = "mysql" /\ last' # last) =>
        \A i \in 1..Len(last'.stmts) :
            last'.stmts[i].sql \in InterpolatedSQL =>
                /\ last'.stmts[i].db = conn'.Database
                /\ last'.stmts[i].db # << >>
                /\ CheckDatabaseName(last'.stmts[i].db)
                /\ last'.op \in {"TableExists", "GetTableInfo"} =>
                    (last'.stmts[i].table # << >> /\ CheckTableName(last'.stmts[i].table))]_vars

\* The caller set Database to "b" on a connected configuration, and GetTableInfo
\* selected from b.t.
C30_Witness ==
    /\ variant = "mysql"
    /\ last.op = "GetTableInfo"
    /\ last.stmts = <<Stmt("SELECT * FROM LIMIT 1", <<"b">>, <<"t">>)>>
    /\ conn.Database = <<"b">>

====
